---- MODULE Spec2Model ----
(***************************************************************************)
(* Opening practice engine of chess-openings-expo: the line matcher        *)
(* (OpeningDatabase), the scripted opponent (AIOpponent) and the practice  *)
(* session hook (useOpeningPractice) with its timers and its asynchronous  *)
(* persistence.                                                            *)
(*                                                                         *)
(* React state is modelled as committed values plus the values captured by *)
(* the memoised callbacks: makeUserMove is re-created only when one of its *)
(* dependencies changes, and the timers it starts keep the values of the   *)
(* render in which it was created.                                         *)
(***************************************************************************)
EXTENDS Integers, Sequences, FiniteSets, TLC

\* ------------------------------------------------------------------ bounds
MaxRestarts == 1      \* calls of resetSession / setOpening in one behaviour

\* -------------------------------------------------------- program constants
MistakeDelay == 100   \* ms before endSession(true) after a wrong move
FirstMoveDelay == 300 \* ms before the opponent's first move (learner is black)
ReplyDelay == 500     \* ms before the opponent's reply

\* ------------------------------------------------------------------- moves
Colors == {"white", "black"}

\* A Move as the matcher sees it; san is never compared and is left out.
Mv(f, t, c) == [from |-> f, to |-> t, color |-> c, promotion |-> "none"]

\* JavaScript null where a Move is expected.
NoMove == [from |-> "-", to |-> "-", color |-> "-", promotion |-> "-"]

\* ----------------------------------------------------------------- catalog
KingsPawnMain == << Mv("e2", "e4", "white") >>

QueensGambitMain ==
    << Mv("d2", "d4", "white"), Mv("d7", "d5", "black"), Mv("c2", "c4", "white") >>

QueensGambitDeclined ==
    << Mv("d2", "d4", "white"), Mv("d7", "d5", "black"), Mv("c2", "c4", "white"),
       Mv("e7", "e6", "black") >>

\* The catalog lists this line with white's first three moves ahead of
\* black's first.
CatalanMain ==
    << Mv("d2", "d4", "white"), Mv("g1", "f3", "white"), Mv("c2", "c4", "white"),
       Mv("e7", "e6", "black"), Mv("g2", "g3", "white"), Mv("f1", "g2", "white") >>

\* The Sicilian Defense: its alternate line, the Open Sicilian, goes on after
\* the end of the main line.
SicilianMain == << Mv("e2", "e4", "white"), Mv("c7", "c5", "black") >>

SicilianOpen ==
    << Mv("e2", "e4", "white"), Mv("c7", "c5", "black"), Mv("g1", "f3", "white"),
       Mv("d7", "d6", "black"), Mv("d2", "d4", "white"), Mv("c5", "d4", "black"),
       Mv("f3", "d4", "white") >>

\* An Opening value that is not in the shipped catalog: its line goes on after
\* a move that leaves the opponent without a legal move, and the entry after
\* that move is not the opponent's.  setOpening accepts any Opening.
MatingLineMain == << Mv("d1", "h5", "white"), Mv("h5", "f7", "white") >>

OpeningIds == {"kings-pawn-e4", "queens-gambit", "catalan", "mating-line"}

Opening(id) ==
    CASE id = "kings-pawn-e4" ->
           [id |-> id, mainLine |-> KingsPawnMain, alternateLines |-> << >>]
      [] id = "queens-gambit" ->
           [id |-> id, mainLine |-> QueensGambitMain,
            alternateLines |-> << [moves |-> QueensGambitDeclined] >>]
      [] id = "catalan" ->
           [id |-> id, mainLine |-> CatalanMain, alternateLines |-> << >>]
      [] id = "mating-line" ->
           [id |-> id, mainLine |-> MatingLineMain, alternateLines |-> << >>]
      [] id = "sicilian-defense" ->
           [id |-> id, mainLine |-> SicilianMain,
            alternateLines |-> << [moves |-> SicilianOpen] >>]

\* ------------------------------------------------------------ chess engine
\* The legality engine (chess.js behind ChessEngine) is an external
\* collaborator.  It is modelled by the colour of the piece on each square
\* that the moves below use, and by the moves that end the game.
Squares == {"d1", "f1", "g1", "c2", "d2", "e2", "g2", "c4", "d4", "e4", "f3", "g3",
            "h5", "d5", "e6", "d7", "e7", "f7"}

WhiteHome == {"d1", "f1", "g1", "c2", "d2", "e2", "g2"}
BlackHome == {"d7", "e7", "f7"}

StartPosition ==
    [s \in Squares |-> IF s \in WhiteHome THEN "white"
                       ELSE IF s \in BlackHome THEN "black" ELSE "empty"]

\* from/to pairs the engine can ever accept
EngineMoves == { <<"e2", "e4">>, <<"d2", "d4">>, <<"c2", "c4">>, <<"g1", "f3">>,
                 <<"g2", "g3">>, <<"f1", "g2">>, <<"d1", "h5">>, <<"h5", "f7">>,
                 <<"d7", "d5">>, <<"e7", "e6">> }

\* moves after which the side to move has no legal move (mate or stalemate)
GameEndingMoves == { <<"d1", "h5">> }

RECURSIVE Position(_)
Position(h) ==
    IF h = << >> THEN StartPosition
    ELSE LET m == h[Len(h)]
             p == Position(SubSeq(h, 1, Len(h) - 1))
         IN  [p EXCEPT ![m.from] = "empty", ![m.to] = m.color]

GetTurn(h) == IF Len(h) % 2 = 0 THEN "white" ELSE "black"

IsGameOver(h) == h # << >> /\ <<h[Len(h)].from, h[Len(h)].to>> \in GameEndingMoves

GetValidMoves(h) ==
    IF IsGameOver(h) THEN {}
    ELSE { Mv(q[1], q[2], GetTurn(h)) :
             q \in { r \in EngineMoves : /\ Position(h)[r[1]] = GetTurn(h)
                                         /\ Position(h)[r[2]] # GetTurn(h) } }

IsMoveValid(h, from, to) == \E m \in GetValidMoves(h) : m.from = from /\ m.to = to

\* ChessEngine.makeMove: the move made, or null
EngineMakeMove(h, from, to) ==
    IF IsMoveValid(h, from, to) THEN Mv(from, to, GetTurn(h)) ELSE NoMove

\* --------------------------------------------------------- OpeningDatabase
MatchesLine(line, history) ==
    IF Len(history) = 0 THEN TRUE
    ELSE IF Len(history) > Len(line) THEN FALSE
    ELSE \A i \in 1..Len(history) :
            /\ history[i].from = line[i].from
            /\ history[i].to = line[i].to
            /\ history[i].promotion = line[i].promotion

NoLine == [found |-> FALSE, moves |-> << >>]

RECURSIVE FirstMatchingAlternate(_, _, _)
FirstMatchingAlternate(alts, history, i) ==
    IF i > Len(alts) THEN NoLine
    ELSE IF MatchesLine(alts[i].moves, history)
         THEN [found |-> TRUE, moves |-> alts[i].moves]
         ELSE FirstMatchingAlternate(alts, history, i + 1)

\* A matcher that knows the main line only.
FindMatchingLine_MainOnly(opening, history) ==
    IF MatchesLine(opening.mainLine, history)
    THEN [found |-> TRUE, moves |-> opening.mainLine]
    ELSE NoLine

FindMatchingLine(opening, history) ==
    IF MatchesLine(opening.mainLine, history)
    THEN [found |-> TRUE, moves |-> opening.mainLine]
    ELSE FirstMatchingAlternate(opening.alternateLines, history, 1)

GetExpectedMove(opening, history, color) ==
    LET matchingLine == FindMatchingLine(opening, history)
        nextMoves == SelectSeq(matchingLine.moves, LAMBDA m : m.color = color)
        expectedMoveIndex == Len(history) \div 2
    IN  IF ~matchingLine.found THEN NoMove
        ELSE IF expectedMoveIndex < Len(nextMoves)
             THEN nextMoves[expectedMoveIndex + 1]
             ELSE NoMove

IsMoveInTheory(opening, history, move) ==
    LET matchingLine == FindMatchingLine(opening, history)
        expectedMove == GetExpectedMove(opening, history, move.color)
    IN  IF ~matchingLine.found THEN FALSE
        ELSE IF expectedMove = NoMove THEN FALSE
        ELSE /\ expectedMove.from = move.from
             /\ expectedMove.to = move.to
             /\ expectedMove.promotion = move.promotion

\* -------------------------------------------------------------- AIOpponent
\* getRandomValidMove: one of the legal moves (checks, then captures, then any;
\* which moves check is the engine's business, so any legal move may come
\* out), or null when there is none.
GetRandomValidMove(h) ==
    IF GetValidMoves(h) = {} THEN {NoMove} ELSE GetValidMoves(h)

\* A getNextMove that returns the theory move without asking the engine.
AIGetMove_Unverified(opening, aiHist, h) ==
    LET theoryMove == GetExpectedMove(opening, aiHist, GetTurn(h))
    IN  IF theoryMove # NoMove THEN {theoryMove} ELSE GetRandomValidMove(h)

\* getNextMove / getMove: the set of moves the call can return
AIGetMove(opening, aiHist, h) ==
    LET theoryMove == GetExpectedMove(opening, aiHist, GetTurn(h))
    IN  IF theoryMove # NoMove /\ IsMoveValid(h, theoryMove.from, theoryMove.to)
        THEN {theoryMove}
        ELSE GetRandomValidMove(h)

\* ------------------------------------------------------ JavaScript numbers
\* A JavaScript number is an IEEE 754 double.  Its 53-bit significand does not
\* fit TLC's integers, so a natural number is kept as its limbs in base
\* LimbBase, least significant first and without leading zero limbs, and a
\* double as [m, e] with value m * 2^e, where m is zero or has exactly
\* SignificandBits bits.  Only the numbers of this program occur: they are
\* far from overflow and underflow.  The Dbl operators take numbers that are
\* not negative; the Num operators put the sign on top of them.
LimbBits == 15
LimbBase == 32768
SignificandBits == 53
GuardBits == 12

RECURSIVE BigTrim(_)
BigTrim(x) ==
    IF x = << >> THEN x
    ELSE IF x[Len(x)] = 0 THEN BigTrim(SubSeq(x, 1, Len(x) - 1)) ELSE x

BigFromInt(n) == BigTrim(<< n % LimbBase, n \div LimbBase >>)

RECURSIVE BigAddCarry(_, _, _)
BigAddCarry(x, y, c) ==
    IF x = << >> /\ y = << >> THEN (IF c = 0 THEN << >> ELSE << c >>)
    ELSE LET a == IF x = << >> THEN 0 ELSE Head(x)
             b == IF y = << >> THEN 0 ELSE Head(y)
             s == a + b + c
         IN  << s % LimbBase >>
             \o BigAddCarry(IF x = << >> THEN x ELSE Tail(x),
                            IF y = << >> THEN y ELSE Tail(y), s \div LimbBase)

BigAdd(x, y) == BigAddCarry(x, y, 0)

RECURSIVE BigMulCarry(_, _, _)
BigMulCarry(x, s, c) ==
    IF x = << >> THEN (IF c = 0 THEN << >> ELSE << c >>)
    ELSE LET p == Head(x) * s + c
         IN  << p % LimbBase >> \o BigMulCarry(Tail(x), s, p \div LimbBase)

\* x * s for 0 <= s < LimbBase
BigMulSmall(x, s) == BigTrim(BigMulCarry(x, s, 0))

\* limbs 1..i of x, with r carried in from the limbs above, divided by s
RECURSIVE BigDivFrom(_, _, _, _)
BigDivFrom(x, s, i, r) ==
    IF i = 0 THEN [q |-> << >>, r |-> r]
    ELSE LET cur == r * LimbBase + x[i]
             rest == BigDivFrom(x, s, i - 1, cur % s)
         IN  [q |-> Append(rest.q, cur \div s), r |-> rest.r]

\* quotient and remainder of x by s, for 0 < s < LimbBase
BigDivSmall(x, s) == [BigDivFrom(x, s, Len(x), 0) EXCEPT !.q = BigTrim(@)]

RECURSIVE BitLength(_)
BitLength(n) == IF n = 0 THEN 0 ELSE 1 + BitLength(n \div 2)

BigBitLength(x) ==
    IF x = << >> THEN 0 ELSE LimbBits * (Len(x) - 1) + BitLength(x[Len(x)])

RECURSIVE Pow2(_)
Pow2(n) == IF n = 0 THEN 1 ELSE 2 * Pow2(n - 1)

\* x * 2^n
BigShiftLeft(x, n) ==
    IF x = << >> THEN x
    ELSE [i \in 1..(n \div LimbBits) |-> 0] \o BigMulSmall(x, Pow2(n % LimbBits))

\* d is the limbs of x above the lowest k, divided by a power of two: the
\* quotient, and whether a nonzero bit of x is below it
BigShiftedOut(x, k, d) ==
    [q |-> d.q, sticky |-> d.r # 0 \/ \E i \in 1..Len(x) : i <= k /\ x[i] # 0]

\* floor(x / 2^n), and whether a nonzero bit was shifted out
BigShiftRight(x, n) ==
    BigShiftedOut(x, n \div LimbBits,
                  BigDivSmall(SubSeq(x, n \div LimbBits + 1, Len(x)), Pow2(n % LimbBits)))

BigIsOdd(x) == x # << >> /\ x[1] % 2 = 1

\* x < y
RECURSIVE BigLessFrom(_, _, _)
BigLessFrom(x, y, i) ==
    IF i = 0 THEN FALSE
    ELSE IF x[i] # y[i] THEN x[i] < y[i]
    ELSE BigLessFrom(x, y, i - 1)

BigLess(x, y) ==
    IF Len(x) # Len(y) THEN Len(x) < Len(y) ELSE BigLessFrom(x, y, Len(x))

DblZero == [m |-> << >>, e |-> 0]

\* The double nearest to n * 2^e (plus a little, if sticky), ties to even.
\* With sticky, n has more than SignificandBits bits.
\* The steps of DblRound take what the step before computed as an argument.
\* q * 2^e, where rounding up may have carried q to SignificandBits + 1 bits
DblCarried(q, e) ==
    IF BigBitLength(q) > SignificandBits
    THEN [m |-> BigShiftRight(q, 1).q, e |-> e + 1]
    ELSE [m |-> q, e |-> e]

\* a holds one bit more than the significand and what was shifted out below
\* it, q is a.q without that bit
DblNearest(a, q, e, sticky) ==
    DblCarried(IF BigIsOdd(a.q) /\ (a.sticky \/ sticky \/ BigIsOdd(q))
               THEN BigAdd(q, << 1 >>) ELSE q, e)

\* n of len bits, not zero
DblOfLength(n, e, sticky, len, a) ==
    IF len <= SignificandBits
    THEN [m |-> BigShiftLeft(n, SignificandBits - len), e |-> e - (SignificandBits - len)]
    ELSE DblNearest(a, BigShiftRight(a.q, 1).q, e + (len - SignificandBits), sticky)

DblRoundBits(n, e, sticky, len) ==
    DblOfLength(n, e, sticky, len,
                IF len <= SignificandBits THEN [q |-> n, sticky |-> FALSE]
                ELSE BigShiftRight(n, len - SignificandBits - 1))

DblRound(n, e, sticky) ==
    IF n = << >> THEN DblZero ELSE DblRoundBits(n, e, sticky, BigBitLength(n))

\* an integer 0 <= n < LimbBase^2 as a number
DblFromInt(n) == DblRound(BigFromInt(n), 0, FALSE)

\* x * n for an integer 0 <= n < LimbBase
DblMulInt(x, n) == DblRound(BigMulSmall(x.m, n), x.e, FALSE)

\* x / k for an integer 0 < k < 2^8
DblDivInt(x, k) ==
    LET d == BigDivSmall(BigShiftLeft(x.m, GuardBits), k)
    IN  DblRound(d.q, x.e - GuardBits, d.r # 0)

DblAdd(x, y) ==
    IF x = DblZero THEN y
    ELSE IF y = DblZero THEN x
    ELSE LET emin == IF x.e < y.e THEN x.e ELSE y.e
         IN  DblRound(BigAdd(BigShiftLeft(x.m, x.e - emin), BigShiftLeft(y.m, y.e - emin)),
                      emin, FALSE)

\* x < y
DblLess(x, y) ==
    IF y = DblZero THEN FALSE
    ELSE IF x = DblZero THEN TRUE
    ELSE IF x.e # y.e THEN x.e < y.e
    ELSE BigLess(x.m, y.m)

DblMax(x, y) == IF DblLess(x, y) THEN y ELSE x

\* x >= n for an integer n
DblAtLeast(x, n) == ~DblLess(x, DblFromInt(n))

\* x - y for x >= y
RECURSIVE BigSubBorrow(_, _, _)
BigSubBorrow(x, y, b) ==
    IF x = << >> THEN << >>
    ELSE LET d == Head(x) - (IF y = << >> THEN 0 ELSE Head(y)) - b
         IN  << IF d < 0 THEN d + LimbBase ELSE d >>
             \o BigSubBorrow(Tail(x), IF y = << >> THEN y ELSE Tail(y),
                             IF d < 0 THEN 1 ELSE 0)

BigSub(x, y) == BigTrim(BigSubBorrow(x, y, 0))

\* x * y
RECURSIVE BigMul(_, _)
BigMul(x, y) ==
    IF y = << >> \/ x = << >> THEN << >>
    ELSE BigAdd(BigMulSmall(x, Head(y)),
                LET rest == BigMul(x, Tail(y))
                IN  IF rest = << >> THEN rest ELSE << 0 >> \o rest)

\* x - y for x >= y >= 0
DblSub(x, y) ==
    IF y = DblZero THEN x
    ELSE LET emin == IF x.e < y.e THEN x.e ELSE y.e
         IN  DblRound(BigSub(BigShiftLeft(x.m, x.e - emin), BigShiftLeft(y.m, y.e - emin)),
                      emin, FALSE)

\* x * y for x, y >= 0
DblMul(x, y) ==
    IF x = DblZero \/ y = DblZero THEN DblZero
    ELSE DblRound(BigMul(x.m, y.m), x.e + y.e, FALSE)

\* A number with its sign: neg, and the magnitude abs.  Zero is not negative.
\* An operator on numbers takes its arguments as values (the one element of a
\* set), so that an argument that is itself a long expression is evaluated
\* once.
Num(neg, abs) == [neg |-> neg /\ abs # DblZero, abs |-> abs]

\* the number literal n / d for integers n and 0 < d < 2^8: the double
\* nearest to the quotient
Decimal(n, d) ==
    CHOOSE r \in { Num(n < 0, abs) :
                     abs \in { DblDivInt(DblFromInt(IF n < 0 THEN 0 - n ELSE n), d) } } : TRUE

NumFromInt(n) == Decimal(n, 1)

NumNeg(x) == Num(~x.neg, x.abs)

NumAddValues(x, y) ==
    IF x.neg = y.neg THEN Num(x.neg, DblAdd(x.abs, y.abs))
    ELSE IF DblLess(x.abs, y.abs) THEN Num(y.neg, DblSub(y.abs, x.abs))
    ELSE Num(x.neg, DblSub(x.abs, y.abs))

NumAdd(x, y) == CHOOSE r \in { NumAddValues(p[1], p[2]) : p \in { << x, y >> } } : TRUE

NumSub(x, y) == NumAdd(x, NumNeg(y))

NumMul(x, y) ==
    CHOOSE r \in { Num(p[1].neg # p[2].neg, DblMul(p[1].abs, p[2].abs)) :
                     p \in { << x, y >> } } : TRUE

NumLessValues(x, y) ==
    IF x.neg /\ ~y.neg THEN TRUE
    ELSE IF ~x.neg /\ y.neg THEN FALSE
    ELSE IF x.neg THEN DblLess(y.abs, x.abs)
    ELSE DblLess(x.abs, y.abs)

\* x < y
NumLess(x, y) == \E p \in { << x, y >> } : NumLessValues(p[1], p[2])

\* x <= y
NumLeq(x, y) == ~NumLess(y, x)

\* Math.max and Math.min
NumMax(x, y) ==
    CHOOSE r \in { IF NumLessValues(p[1], p[2]) THEN p[2] ELSE p[1] :
                     p \in { << x, y >> } } : TRUE

NumMin(x, y) ==
    CHOOSE r \in { IF NumLessValues(p[2], p[1]) THEN p[2] ELSE p[1] :
                     p \in { << x, y >> } } : TRUE

\* ---------------------------------------------------------- ProgressTracker
\* Thresholds that the accuracy has to exceed.
CalculateMasteryLevel_Strict(averageAccuracy, timesPracticed) ==
    IF timesPracticed = 0 THEN 0
    ELSE IF DblLess(DblFromInt(95), averageAccuracy) /\ timesPracticed >= 5 THEN 5
    ELSE IF DblLess(DblFromInt(90), averageAccuracy) /\ timesPracticed >= 4 THEN 4
    ELSE IF DblLess(DblFromInt(80), averageAccuracy) /\ timesPracticed >= 3 THEN 3
    ELSE IF DblLess(DblFromInt(70), averageAccuracy) /\ timesPracticed >= 2 THEN 2
    ELSE IF DblLess(DblFromInt(60), averageAccuracy) /\ timesPracticed >= 1 THEN 1
    ELSE 0

\* calculateMasteryLevel(averageAccuracy, timesPracticed)
CalculateMasteryLevel(averageAccuracy, timesPracticed) ==
    IF timesPracticed = 0 THEN 0
    ELSE IF DblAtLeast(averageAccuracy, 95) /\ timesPracticed >= 5 THEN 5
    ELSE IF DblAtLeast(averageAccuracy, 90) /\ timesPracticed >= 4 THEN 4
    ELSE IF DblAtLeast(averageAccuracy, 80) /\ timesPracticed >= 3 THEN 3
    ELSE IF DblAtLeast(averageAccuracy, 70) /\ timesPracticed >= 2 THEN 2
    ELSE IF DblAtLeast(averageAccuracy, 60) /\ timesPracticed >= 1 THEN 1
    ELSE 0


\* ------------------------------------------------------ useOpeningPractice
VARIABLES
    opening,               \* id of the Opening in state (set by setOpening)
    userColor,
    moveHistory,           \* useChessGame's moveHistory; the engine's game holds the same moves
    aiHistory,             \* AIOpponent.moveHistory (AIOpponent.opening is `opening`)
    correctMoves,
    totalMoves,
    sessionEnded,
    showRatingPrompt,
    hasMadeMistake,
    openingCompleted,
    waitingForInteraction,
    cap,                   \* what the current makeUserMove closure captured
    timers,                \* pending setTimeout callbacks, in creation order
    inflight,              \* endSession calls suspended at an await, in creation order
    lastSaved,             \* the last session result ProgressTracker.updateSessionProgress stored
    left,                  \* GameScreen has navigated away
    sessionNo,             \* number of restarts so far
    ended,                 \* the endSession call that ended the current session
    lastEvent,             \* the handler that ran last, and what it did
    sessionLog             \* the ProgressTracker calls that settled (kept where the
                           \* tracker is followed call by call; see InitStore)

vars == << opening, userColor, moveHistory, aiHistory, correctMoves, totalMoves,
           sessionEnded, showRatingPrompt, hasMadeMistake, openingCompleted,
           waitingForInteraction, cap, timers, inflight, lastSaved, left,
           sessionNo, ended, lastEvent, sessionLog >>

\* The values of one render that a callback created in it keeps.
Env(h, total, correct, isEnded, o, c, s) ==
    [moveHistory |-> h, totalMoves |-> total, correctMoves |-> correct,
     sessionEnded |-> isEnded, opening |-> o, userColor |-> c, session |-> s]

CurrentEnv ==
    Env(moveHistory, totalMoves, correctMoves, sessionEnded, opening, userColor, sessionNo)

\* kind: the handler, as its console.log lines tell; flag: a result of the
\* handler (see each action).
Event(kind, flag) == [kind |-> kind, flag |-> flag]

NotEnded ==
    [why |-> "none", showRating |-> FALSE, persisted |-> FALSE,
     correctMoves |-> 0, totalMoves |-> 0, correctNow |-> 0, totalNow |-> 0]

\* A dependency list without sessionEnded.
MakeUserMoveDepsChanged_NoSessionEnded ==
    \/ GetTurn(moveHistory') # GetTurn(moveHistory)
    \/ userColor' # userColor
    \/ opening' # opening

\* makeUserMove's dependency list: it is re-created in the render that follows
\* a handler only if currentTurn, userColor, opening or sessionEnded changed
\* (makeMove, aiOpponent and engine never change after mounting, and
\* checkOpeningCompletionWithHistory changes with opening).
MakeUserMoveDepsChanged ==
    \/ GetTurn(moveHistory') # GetTurn(moveHistory)
    \/ userColor' # userColor
    \/ opening' # opening
    \/ sessionEnded' # sessionEnded

Render ==
    cap' = IF MakeUserMoveDepsChanged
           THEN Env(moveHistory', totalMoves', correctMoves', sessionEnded',
                    opening', userColor', sessionNo')
           ELSE cap

Delay(kind) ==
    CASE kind = "mistake" -> MistakeDelay
      [] kind = "first" -> FirstMoveDelay
      [] kind = "reply" -> ReplyDelay

\* A timer fires only after every timer started before it with a delay that
\* is not longer.
CanFire(i) ==
    \A j \in 1..(i - 1) : Delay(timers[j].kind) > Delay(timers[i].kind)

Remove(seq, i) == SubSeq(seq, 1, i - 1) \o SubSeq(seq, i + 1, Len(seq))

\* totalMoves > 0 ? (correctMoves / totalMoves) * 100 : 0
Accuracy(correct, total) ==
    IF total > 0 THEN DblMulInt(DblDivInt(DblFromInt(correct), total), 100) ELSE DblZero

CheckOpeningCompletionWithHistory(o, history) ==
    IF Len(history) = 0 THEN FALSE
    ELSE IF Len(history) >= Len(Opening(o).mainLine) THEN TRUE
    ELSE \E i \in 1..Len(Opening(o).alternateLines) :
            Len(history) >= Len(Opening(o).alternateLines[i].moves)

\* Does endSession, created in the render `env`, save progress?
SavesProgress(env) == env.totalMoves > 0

\* endSession variants that differ from the code after the try/catch: one
\* that waits for the interaction whatever was asked for, one that never does.
FinishEndSession_AlwaysAwaits(showRating) ==
    waitingForInteraction' = TRUE

FinishEndSession_Skipped(showRating) ==
    UNCHANGED waitingForInteraction

\* What endSession does after its try/catch: when a rating was asked for, it
\* is deferred to the learner's next tap.
FinishEndSession(showRating) ==
    waitingForInteraction' = (showRating \/ waitingForInteraction)

\* endSession as created in the render `env`, up to its first await.
\* correctNow / totalNow are the counters once the calling handler's updates
\* are applied.
EndSession(env, showRating, why, correctNow, totalNow) ==
    IF env.sessionEnded
    THEN UNCHANGED << sessionEnded, waitingForInteraction, ended, inflight >>
    ELSE /\ sessionEnded' = TRUE
         /\ ended' = [why |-> why, showRating |-> showRating,
                      persisted |-> SavesProgress(env),
                      correctMoves |-> env.correctMoves, totalMoves |-> env.totalMoves,
                      correctNow |-> correctNow, totalNow |-> totalNow]
         /\ IF SavesProgress(env)
            THEN /\ inflight' = Append(inflight,
                        [stage |-> "progress", why |-> why, showRating |-> showRating,
                         openingId |-> env.opening,
                         accuracy |-> Accuracy(env.correctMoves, env.totalMoves),
                         correctMoves |-> env.correctMoves,
                         totalMoves |-> env.totalMoves,
                         session |-> env.session])
                 /\ UNCHANGED waitingForInteraction
            ELSE /\ FinishEndSession(showRating)
                 /\ UNCHANGED inflight

NoEndSession ==
    UNCHANGED << sessionEnded, waitingForInteraction, ended, inflight >>

NothingSaved == [openingId |-> "-", accuracy |-> DblZero, session |-> 0]

NoCalls == [made |-> 0, accuracies |-> << >>, overlapped |-> FALSE]

Store == << lastSaved, sessionLog >>

FirstMoveTimers(color, s) ==
    IF color = "black" THEN << [kind |-> "first", env |-> Env(<< >>, 0, 0, FALSE, "-", color, s)] >>
    ELSE << >>

Init ==
    /\ opening \in OpeningIds
    /\ userColor \in Colors
    /\ moveHistory = << >>
    /\ aiHistory = << >>
    /\ correctMoves = 0
    /\ totalMoves = 0
    /\ sessionEnded = FALSE
    /\ showRatingPrompt = FALSE
    /\ hasMadeMistake = FALSE
    /\ openingCompleted = FALSE
    /\ waitingForInteraction = FALSE
    /\ cap = Env(<< >>, 0, 0, FALSE, opening, userColor, 0)
    /\ timers = FirstMoveTimers(userColor, 0)
    /\ inflight = << >>
    /\ lastSaved = NothingSaved
    /\ left = FALSE
    /\ sessionNo = 0
    /\ ended = NotEnded
    /\ lastEvent = Event("setOpening", FALSE)
    /\ sessionLog = NoCalls

\* ----------------------------------------------------------------- actions
\* GameScreen is mounted and the rating prompt, a modal, does not cover it.
ScreenResponds == ~left /\ ~showRatingPrompt

\* makeUserMove(from, to) when the engine accepts the move
MakeUserMove(from, to) ==
    /\ ScreenResponds
    /\ GetTurn(moveHistory) = userColor
    /\ ~cap.sessionEnded
    /\ IsMoveValid(moveHistory, from, to)
    /\ LET move == EngineMakeMove(moveHistory, from, to)
           isCorrect == IsMoveInTheory(Opening(opening), aiHistory, move)
           isCompleted ==
               CheckOpeningCompletionWithHistory(opening, Append(cap.moveHistory, move))
       IN  /\ moveHistory' = Append(moveHistory, move)
           /\ totalMoves' = totalMoves + 1
           /\ IF isCorrect
              THEN /\ correctMoves' = correctMoves + 1
                   /\ UNCHANGED hasMadeMistake
                   /\ IF isCompleted
                      THEN /\ openingCompleted' = TRUE
                           /\ EndSession(cap, TRUE, "completed",
                                         correctMoves + 1, totalMoves + 1)
                           /\ UNCHANGED << aiHistory, timers >>
                      ELSE /\ aiHistory' = Append(aiHistory, move)
                           /\ timers' = Append(timers, [kind |-> "reply", env |-> cap])
                           /\ NoEndSession
                           /\ UNCHANGED openingCompleted
              ELSE /\ hasMadeMistake' = TRUE
                   /\ timers' = Append(timers, [kind |-> "mistake", env |-> cap])
                   /\ NoEndSession
                   /\ UNCHANGED << correctMoves, aiHistory, openingCompleted >>
           /\ lastEvent' = Event(IF ~isCorrect THEN "wrongMove"
                                 ELSE IF isCompleted THEN "completingMove"
                                 ELSE "correctMove", isCorrect)
    /\ UNCHANGED << opening, userColor, showRatingPrompt, left, sessionNo >>
    /\ UNCHANGED Store
    /\ Render

\* from/to pairs tried on makeUserMove besides the accepted ones: a move that
\* is legal only at the start, and one the engine never accepts
RefusedTries == { <<"e2", "e4">>, <<"h5", "f7">> }

\* makeUserMove(from, to) when it returns false: before touching anything
\* when it is not the learner's turn or the session has ended, or after the
\* engine has refused the move.  flag: the call got as far as the engine.
MakeUserMoveRefused(from, to) ==
    /\ ScreenResponds
    /\ LET blocked == GetTurn(moveHistory) # userColor \/ cap.sessionEnded
       IN  /\ blocked \/ EngineMakeMove(moveHistory, from, to) = NoMove
           /\ lastEvent' = Event("moveRefused", ~blocked)
    /\ UNCHANGED << opening, userColor, moveHistory, aiHistory, correctMoves, totalMoves,
                    sessionEnded, showRatingPrompt, hasMadeMistake, openingCompleted,
                    waitingForInteraction, timers, inflight, left, sessionNo, ended >>
    /\ UNCHANGED Store
    /\ Render

\* the callback of the reply timer started by makeUserMove
ReplyTimerFires(i) ==
    /\ i \in 1..Len(timers)
    /\ timers[i].kind = "reply"
    /\ CanFire(i)
    /\ LET env == timers[i].env
           currentEngineTurn == GetTurn(moveHistory)
           aiColor == IF env.userColor = "white" THEN "black" ELSE "white"
       IN  /\ timers' = Remove(timers, i)
           /\ IF env.sessionEnded \/ currentEngineTurn = env.userColor
              THEN /\ UNCHANGED << moveHistory, aiHistory, openingCompleted >>
                   /\ NoEndSession
                   /\ lastEvent' = Event("replySkipped", FALSE)
              ELSE \E aiMove \in AIGetMove(Opening(opening), aiHistory, moveHistory) :
                     IF aiMove # NoMove
                     THEN LET executedMove ==
                                  EngineMakeMove(moveHistory, aiMove.from, aiMove.to)
                              isCompleted == CheckOpeningCompletionWithHistory(
                                  env.opening, Append(env.moveHistory, executedMove))
                          IN  IF executedMove # NoMove
                              THEN /\ moveHistory' = Append(moveHistory, executedMove)
                                   /\ aiHistory' = Append(aiHistory, executedMove)
                                   /\ IF isCompleted
                                      THEN /\ openingCompleted' = TRUE
                                           /\ EndSession(env, TRUE, "completed",
                                                         correctMoves, totalMoves)
                                      ELSE /\ NoEndSession
                                           /\ UNCHANGED openingCompleted
                                   /\ lastEvent' = Event("reply", isCompleted)
                              ELSE /\ UNCHANGED << moveHistory, aiHistory, openingCompleted >>
                                   /\ NoEndSession
                                   /\ lastEvent' = Event("replyRejected", FALSE)
                     ELSE LET userExpectedMove == GetExpectedMove(
                                  Opening(env.opening), env.moveHistory, currentEngineTurn)
                              aiExpectedMove == GetExpectedMove(
                                  Opening(env.opening), env.moveHistory, aiColor)
                          IN  /\ UNCHANGED << moveHistory, aiHistory, openingCompleted >>
                              /\ IF userExpectedMove = NoMove /\ aiExpectedMove = NoMove
                                 THEN EndSession(env, FALSE, "exhausted",
                                                 correctMoves, totalMoves)
                                 ELSE NoEndSession
                              /\ lastEvent' = Event("noReply",
                                     userExpectedMove = NoMove /\ aiExpectedMove = NoMove)
    /\ UNCHANGED << opening, userColor, correctMoves, totalMoves, showRatingPrompt,
                    hasMadeMistake, left, sessionNo >>
    /\ UNCHANGED Store
    /\ Render

\* the callback of the timer started after a wrong move: endSession(true)
MistakeTimerFires(i) ==
    /\ i \in 1..Len(timers)
    /\ timers[i].kind = "mistake"
    /\ CanFire(i)
    /\ timers' = Remove(timers, i)
    /\ EndSession(timers[i].env, TRUE, "mistake", correctMoves, totalMoves)
    /\ lastEvent' = Event("mistakeTimer", FALSE)
    /\ UNCHANGED << opening, userColor, moveHistory, aiHistory, correctMoves, totalMoves,
                    showRatingPrompt, hasMadeMistake, openingCompleted, left, sessionNo >>
    /\ UNCHANGED Store
    /\ Render

\* the callback of the timer started by setOpening / resetSession when the
\* learner plays black
FirstMoveTimerFires(i) ==
    /\ i \in 1..Len(timers)
    /\ timers[i].kind = "first"
    /\ CanFire(i)
    /\ timers' = Remove(timers, i)
    /\ \E aiMove \in AIGetMove(Opening(opening), aiHistory, moveHistory) :
         LET executedMove == IF aiMove = NoMove THEN NoMove
                             ELSE EngineMakeMove(moveHistory, aiMove.from, aiMove.to)
         IN  IF executedMove # NoMove
             THEN /\ moveHistory' = Append(moveHistory, executedMove)
                  /\ aiHistory' = Append(aiHistory, executedMove)
                  /\ lastEvent' = Event("first", FALSE)
             ELSE /\ UNCHANGED << moveHistory, aiHistory >>
                  /\ lastEvent' = Event("firstRejected", FALSE)
    /\ NoEndSession
    /\ UNCHANGED << opening, userColor, correctMoves, totalMoves, showRatingPrompt,
                    hasMadeMistake, openingCompleted, left, sessionNo >>
    /\ UNCHANGED Store
    /\ Render

\* GameScreen's End Session button, rendered while the session has not ended
EndSessionButton ==
    /\ ScreenResponds
    /\ ~sessionEnded
    /\ EndSession(CurrentEnv,
                  CheckOpeningCompletionWithHistory(opening, moveHistory),
                  "button", correctMoves, totalMoves)
    /\ lastEvent' = Event("endButton",
                          CheckOpeningCompletionWithHistory(opening, moveHistory))
    /\ UNCHANGED << opening, userColor, moveHistory, aiHistory, correctMoves, totalMoves,
                    showRatingPrompt, hasMadeMistake, openingCompleted, timers, left,
                    sessionNo >>
    /\ UNCHANGED Store
    /\ Render

\* A reset that clears only the total.
ResetCounters_TotalOnly ==
    /\ totalMoves' = 0
    /\ UNCHANGED correctMoves

\* setCorrectMoves(0); setTotalMoves(0) of resetSession and setOpening
ResetCounters ==
    /\ correctMoves' = 0
    /\ totalMoves' = 0

\* resetSession (GameScreen's Reset button)
ResetSession ==
    /\ ScreenResponds
    /\ sessionNo < MaxRestarts
    /\ sessionNo' = sessionNo + 1
    /\ moveHistory' = << >>
    /\ ResetCounters
    /\ sessionEnded' = FALSE
    /\ showRatingPrompt' = FALSE
    /\ hasMadeMistake' = FALSE
    /\ openingCompleted' = FALSE
    /\ waitingForInteraction' = FALSE
    /\ aiHistory' = << >>
    /\ timers' = timers \o FirstMoveTimers(userColor, sessionNo + 1)
    /\ ended' = NotEnded
    /\ lastEvent' = Event("resetSession", FALSE)
    /\ UNCHANGED << opening, userColor, inflight, left >>
    /\ UNCHANGED Store
    /\ Render

\* setOpening(newOpening, color).  A hook instance serves the one opening of
\* its GameScreen, so Next calls it again with that opening and either colour.
SetOpening(newOpening, color) ==
    /\ ~left
    /\ sessionNo < MaxRestarts
    /\ sessionNo' = sessionNo + 1
    /\ opening' = newOpening
    /\ userColor' = color
    /\ moveHistory' = << >>
    /\ ResetCounters
    /\ sessionEnded' = FALSE
    /\ showRatingPrompt' = FALSE
    /\ hasMadeMistake' = FALSE
    /\ aiHistory' = << >>
    /\ timers' = timers \o FirstMoveTimers(color, sessionNo + 1)
    /\ ended' = NotEnded
    /\ lastEvent' = Event("setOpening", FALSE)
    /\ UNCHANGED << openingCompleted, waitingForInteraction, inflight, left >>
    /\ UNCHANGED Store
    /\ Render

\* handleInteraction: a tap anywhere while waitingForInteraction
HandleInteraction ==
    /\ ScreenResponds
    /\ waitingForInteraction
    /\ waitingForInteraction' = FALSE
    /\ showRatingPrompt' = TRUE
    /\ lastEvent' = Event("handleInteraction", FALSE)
    /\ UNCHANGED << opening, userColor, moveHistory, aiHistory, correctMoves, totalMoves,
                    sessionEnded, hasMadeMistake, openingCompleted, timers, inflight,
                    left, sessionNo, ended >>
    /\ UNCHANGED Store
    /\ Render

\* the rating prompt's Skip button: skipRating, then GameScreen navigates away
SkipRating ==
    /\ ~left
    /\ showRatingPrompt
    /\ showRatingPrompt' = FALSE
    /\ waitingForInteraction' = FALSE
    /\ left' = TRUE
    /\ lastEvent' = Event("skipRating", FALSE)
    /\ UNCHANGED << opening, userColor, moveHistory, aiHistory, correctMoves, totalMoves,
                    sessionEnded, hasMadeMistake, openingCompleted, timers, inflight,
                    sessionNo, ended >>
    /\ UNCHANGED Store
    /\ Render

\* the rating prompt's Hard / Good / Easy buttons: rateOpening up to its await
RateOpening ==
    /\ ~left
    /\ showRatingPrompt
    /\ \A i \in 1..Len(inflight) : inflight[i].stage # "rating"
    /\ inflight' = Append(inflight,
           [stage |-> "rating", why |-> "rate", showRating |-> FALSE,
            openingId |-> opening, accuracy |-> DblZero, correctMoves |-> 0,
            totalMoves |-> 0, session |-> sessionNo])
    /\ lastEvent' = Event("rateOpening", FALSE)
    /\ UNCHANGED << opening, userColor, moveHistory, aiHistory, correctMoves, totalMoves,
                    sessionEnded, showRatingPrompt, hasMadeMistake, openingCompleted,
                    waitingForInteraction, timers, left, sessionNo, ended >>
    /\ UNCHANGED Store
    /\ Render

\* `await updateRating(...)` settles: on success the prompt is closed and
\* GameScreen navigates away; a failure is logged and the prompt stays.
UpdateRatingSettles(i, ok) ==
    /\ i \in 1..Len(inflight)
    /\ inflight[i].stage = "rating"
    /\ inflight' = Remove(inflight, i)
    /\ IF ok
       THEN /\ showRatingPrompt' = FALSE
            /\ waitingForInteraction' = FALSE
            /\ left' = TRUE
       ELSE UNCHANGED << showRatingPrompt, waitingForInteraction, left >>
    /\ lastEvent' = Event(IF ok THEN "rated" ELSE "rateFailed", FALSE)
    /\ UNCHANGED << opening, userColor, moveHistory, aiHistory, correctMoves, totalMoves,
                    sessionEnded, hasMadeMistake, openingCompleted, timers, sessionNo,
                    ended >>
    /\ UNCHANGED Store
    /\ Render

\* `await updateProgress(...)` settles; ok = FALSE is a rejected promise, which
\* useProgress.updateProgress logs and rethrows and endSession catches.
UpdateProgressSettles(i, ok) ==
    /\ i \in 1..Len(inflight)
    /\ inflight[i].stage = "progress"
    /\ IF ok
       THEN /\ lastSaved' = [openingId |-> inflight[i].openingId,
                          accuracy |-> inflight[i].accuracy,
                          session |-> inflight[i].session]
            /\ inflight' = [inflight EXCEPT ![i].stage = "stats"]
            /\ UNCHANGED waitingForInteraction
       ELSE /\ inflight' = Remove(inflight, i)
            /\ FinishEndSession(inflight[i].showRating)
            /\ UNCHANGED lastSaved
    /\ lastEvent' = Event(IF ok THEN "progressSaved" ELSE "progressFailed",
                          inflight[i].showRating)
    /\ UNCHANGED << opening, userColor, moveHistory, aiHistory, correctMoves, totalMoves,
                    sessionEnded, showRatingPrompt, hasMadeMistake, openingCompleted,
                    timers, left, sessionNo, ended, sessionLog >>
    /\ Render

\* `await saveSessionStats(...)` settles; a failed write is logged inside
\* saveSessionStats and never reaches endSession.
SaveSessionStatsSettles(i, ok) ==
    /\ i \in 1..Len(inflight)
    /\ inflight[i].stage = "stats"
    /\ inflight' = Remove(inflight, i)
    /\ FinishEndSession(inflight[i].showRating)
    /\ lastEvent' = Event(IF ok THEN "statsSaved" ELSE "statsFailed",
                          inflight[i].showRating)
    /\ UNCHANGED << opening, userColor, moveHistory, aiHistory, correctMoves, totalMoves,
                    sessionEnded, showRatingPrompt, hasMadeMistake, openingCompleted,
                    timers, lastSaved, left, sessionNo, ended, sessionLog >>
    /\ Render

Next ==
    \/ \E q \in EngineMoves : MakeUserMove(q[1], q[2])
    \/ \E q \in RefusedTries : MakeUserMoveRefused(q[1], q[2])
    \/ \E i \in 1..Len(timers) : ReplyTimerFires(i)
    \/ \E i \in 1..Len(timers) : MistakeTimerFires(i)
    \/ \E i \in 1..Len(timers) : FirstMoveTimerFires(i)
    \/ EndSessionButton
    \/ ResetSession
    \/ \E c \in Colors : SetOpening(opening, c)
    \/ HandleInteraction
    \/ SkipRating
    \/ RateOpening
    \/ \E i \in 1..Len(inflight), ok \in BOOLEAN : UpdateRatingSettles(i, ok)
    \/ \E i \in 1..Len(inflight), ok \in BOOLEAN : UpdateProgressSettles(i, ok)
    \/ \E i \in 1..Len(inflight), ok \in BOOLEAN : SaveSessionStatsSettles(i, ok)

Spec == Init /\ [][Next]_vars

\* ----------------------------------------- OpeningDatabase, called directly
\* The static functions of OpeningDatabase take the opening and the history
\* as arguments.  Here opening and aiHistory hold the arguments of the calls,
\* and lastEvent the last call with its result; the session does not run.
MatcherOpeningIds == OpeningIds \cup {"sicilian-defense"}

Lines(o) == {o.mainLine} \cup { o.alternateLines[i].moves : i \in 1..Len(o.alternateLines) }

Prefixes(line) == { SubSeq(line, 1, k) : k \in 0..Len(line) }

\* the Move values of the catalog lines above
MatcherMoves ==
    UNION { { l[i] : i \in 1..Len(l) } : l \in UNION { Lines(Opening(id)) : id \in MatcherOpeningIds } }

\* Histories passed to the matcher: every prefix of a line of the opening,
\* and every such prefix followed by one more move.
QueryHistories(o) ==
    LET onLine == UNION { Prefixes(l) : l \in Lines(o) }
    IN  onLine \cup { Append(h, m) : h \in onLine, m \in MatcherMoves }

InitMatcher ==
    /\ opening \in MatcherOpeningIds
    /\ aiHistory \in QueryHistories(Opening(opening))
    /\ userColor = "white"
    /\ moveHistory = << >>
    /\ correctMoves = 0
    /\ totalMoves = 0
    /\ sessionEnded = FALSE
    /\ showRatingPrompt = FALSE
    /\ hasMadeMistake = FALSE
    /\ openingCompleted = FALSE
    /\ waitingForInteraction = FALSE
    /\ cap = Env(<< >>, 0, 0, FALSE, opening, userColor, 0)
    /\ timers = << >>
    /\ inflight = << >>
    /\ lastSaved = NothingSaved
    /\ left = FALSE
    /\ sessionNo = 0
    /\ ended = NotEnded
    /\ lastEvent = Event("none", FALSE)
    /\ sessionLog = NoCalls

MatcherFrame ==
    UNCHANGED << opening, userColor, moveHistory, aiHistory, correctMoves, totalMoves,
                 sessionEnded, showRatingPrompt, hasMadeMistake, openingCompleted,
                 waitingForInteraction, cap, timers, inflight, lastSaved, left,
                 sessionNo, ended, sessionLog >>

\* OpeningDatabase.findMatchingLine(opening, moveHistory)
CallFindMatchingLine ==
    /\ lastEvent' = Event("findMatchingLine", FindMatchingLine(Opening(opening), aiHistory))
    /\ MatcherFrame

\* OpeningDatabase.getExpectedMove(opening, moveHistory, color)
CallGetExpectedMove(color) ==
    /\ lastEvent' = Event("getExpectedMove",
                          [color |-> color,
                           move |-> GetExpectedMove(Opening(opening), aiHistory, color)])
    /\ MatcherFrame

\* OpeningDatabase.isMoveInTheory(opening, moveHistory, move)
CallIsMoveInTheory(move) ==
    /\ lastEvent' = Event("isMoveInTheory",
                          [move |-> move,
                           result |-> IsMoveInTheory(Opening(opening), aiHistory, move)])
    /\ MatcherFrame

NextMatcher ==
    \/ CallFindMatchingLine
    \/ \E color \in Colors : CallGetExpectedMove(color)
    \/ \E move \in MatcherMoves : CallIsMoveInTheory(move)

SpecMatcher == InitMatcher /\ [][NextMatcher]_vars

\* ------------------------------------- ProgressTracker, called call by call
\* Here lastSaved is the item of AsyncStorage under PROGRESS_STORAGE_KEY (the
\* record of each opening, as JSON.parse reads it), inflight holds the
\* updateRating and updateSessionProgress calls suspended at an await, and
\* sessionLog the calls made and the accuracies of the updateSessionProgress
\* calls that settled.  AsyncStorage answers every request.
MaxCalls == 4          \* calls of updateRating / updateSessionProgress in one behaviour
MaxInFlight == 2       \* calls suspended at an await at one time

TrackedIds == {"queens-gambit"}
\* the keys an item of AsyncStorage may hold: the ids of two openings
StoredIds == TrackedIds \cup {"italian-game"}
Ratings == {"hard", "good", "easy"}

\* (correctMoves, totalMoves) of the sessions whose results are saved
SessionResults == { <<0, 1>>, <<1, 6>>, <<2, 5>>, <<1, 1>> }

Undefined == [defined |-> FALSE]
Defined(v) == [defined |-> TRUE, value |-> v]

\* Date.prototype.toISOString, and new Date(isoString)
ToISOString(date) == [iso |-> date]
NewDate(string) == string.iso

\* ratingHistory?.map(...) of saveOpeningProgress
HistoryToSave(history) ==
    IF history.defined
    THEN Defined([i \in 1..Len(history.value) |->
                     [date |-> ToISOString(history.value[i].date),
                      rating |-> history.value[i].rating]])
    ELSE Undefined

\* ratingHistory?.map(...) of getAllProgress
ParseHistory(history) ==
    IF history.defined
    THEN Defined([i \in 1..Len(history.value) |->
                     [date |-> NewDate(history.value[i].date),
                      rating |-> history.value[i].rating]])
    ELSE Undefined

\* progressToSave of saveOpeningProgress
ProgressToSave(progress) ==
    [progress EXCEPT
        !.lastPracticed = ToISOString(progress.lastPracticed),
        !.lastRated = IF progress.lastRated.defined
                      THEN Defined(ToISOString(progress.lastRated.value)) ELSE Undefined,
        !.ratingHistory = HistoryToSave(progress.ratingHistory)]

\* one entry of getAllProgress's result
ParseProgress(stored) ==
    [stored EXCEPT
        !.lastPracticed = NewDate(stored.lastPracticed),
        !.lastRated = IF stored.lastRated.defined
                      THEN Defined(NewDate(stored.lastRated.value)) ELSE Undefined,
        !.ratingHistory = ParseHistory(stored.ratingHistory)]

\* getOpeningProgress(openingId) on the item read: null, or the record with
\* its dates (getAllProgress makes the Dates; getOpeningProgress's own
\* new Date(...) copies them)
GetOpeningProgress(item, openingId) ==
    IF item[openingId].defined THEN Defined(ParseProgress(item[openingId].value))
    ELSE Undefined

\* A rating that starts the rating history anew.
RatedProgress_HistoryRestarted(progress, openingId, rating, now) ==
    [openingId |-> openingId,
     timesPracticed |-> IF progress.defined THEN progress.value.timesPracticed ELSE 0,
     lastPracticed |-> IF progress.defined THEN progress.value.lastPracticed ELSE now,
     bestAccuracy |-> IF progress.defined THEN progress.value.bestAccuracy ELSE DblZero,
     averageAccuracy |-> IF progress.defined THEN progress.value.averageAccuracy ELSE DblZero,
     completed |-> IF progress.defined THEN progress.value.completed ELSE FALSE,
     masteryLevel |-> IF progress.defined THEN progress.value.masteryLevel ELSE 0,
     difficultyRating |-> Defined(rating),
     lastRated |-> Defined(now),
     ratingHistory |-> Defined(<< [date |-> now, rating |-> rating] >>)]

\* the record updateRating saves
RatedProgress(progress, openingId, rating, now) ==
    IF ~progress.defined
    THEN [openingId |-> openingId, timesPracticed |-> 0, lastPracticed |-> now,
          bestAccuracy |-> DblZero, averageAccuracy |-> DblZero, completed |-> FALSE,
          masteryLevel |-> 0, difficultyRating |-> Defined(rating),
          lastRated |-> Defined(now),
          ratingHistory |-> Defined(<< [date |-> now, rating |-> rating] >>)]
    ELSE [progress.value EXCEPT
            !.difficultyRating = Defined(rating),
            !.lastRated = Defined(now),
            !.ratingHistory =
                Defined((IF progress.value.ratingHistory.defined
                         THEN progress.value.ratingHistory.value ELSE << >>)
                        \o << [date |-> now, rating |-> rating] >>)]

\* An average of the old average and the new accuracy.
NewAverageAccuracy_Unweighted(averageAccuracy, timesPracticed, accuracy) ==
    DblDivInt(DblAdd(averageAccuracy, accuracy), 2)

\* newAverageAccuracy of updateSessionProgress
NewAverageAccuracy(averageAccuracy, timesPracticed, accuracy) ==
    DblDivInt(DblAdd(DblMulInt(averageAccuracy, timesPracticed), accuracy),
              timesPracticed + 1)

\* the record updateSessionProgress saves
SessionProgress(progress, openingId, accuracy, correct, total, now) ==
    IF ~progress.defined
    THEN [openingId |-> openingId, timesPracticed |-> 1, lastPracticed |-> now,
          bestAccuracy |-> accuracy, averageAccuracy |-> accuracy,
          completed |-> (total > 0 /\ correct = total),
          masteryLevel |-> CalculateMasteryLevel(accuracy, 1),
          difficultyRating |-> Undefined, lastRated |-> Undefined,
          ratingHistory |-> Undefined]
    ELSE LET old == progress.value
             timesPracticed == old.timesPracticed + 1
             newAverageAccuracy ==
                 NewAverageAccuracy(old.averageAccuracy, old.timesPracticed, accuracy)
         IN  [old EXCEPT
                !.timesPracticed = timesPracticed,
                !.lastPracticed = now,
                !.bestAccuracy = DblMax(old.bestAccuracy, accuracy),
                !.averageAccuracy = newAverageAccuracy,
                !.completed = (old.completed \/ (total > 0 /\ correct = total)),
                !.masteryLevel = CalculateMasteryLevel(newAverageAccuracy, timesPracticed)]

NoItem == [id \in StoredIds |-> Undefined]

\* new Date(): time is counted in the calls made so far
Now == sessionLog.made

InitStore ==
    /\ opening \in TrackedIds
    /\ userColor = "white"
    /\ moveHistory = << >>
    /\ aiHistory = << >>
    /\ correctMoves = 0
    /\ totalMoves = 0
    /\ sessionEnded = FALSE
    /\ showRatingPrompt = FALSE
    /\ hasMadeMistake = FALSE
    /\ openingCompleted = FALSE
    /\ waitingForInteraction = FALSE
    /\ cap = Env(<< >>, 0, 0, FALSE, opening, userColor, 0)
    /\ timers = << >>
    /\ inflight = << >>
    /\ lastSaved = NoItem
    /\ left = FALSE
    /\ sessionNo = 0
    /\ ended = NotEnded
    /\ lastEvent = Event("none", FALSE)
    /\ sessionLog = NoCalls

StoreFrame ==
    UNCHANGED << opening, userColor, moveHistory, aiHistory, correctMoves, totalMoves,
                 sessionEnded, hasMadeMistake, openingCompleted, cap, timers, left,
                 sessionNo, ended, lastEvent >>

\* A call is made: it reaches `await this.getOpeningProgress(openingId)`.
\* overlapped tells whether another call was in flight while this one was.
BeginCall(call) ==
    /\ sessionLog.made < MaxCalls
    /\ Len(inflight) < MaxInFlight
    /\ inflight' = Append([i \in 1..Len(inflight) |-> [inflight[i] EXCEPT !.overlapped = TRUE]],
                          [call EXCEPT !.overlapped = (inflight # << >>)])
    /\ sessionLog' = [sessionLog EXCEPT !.made = sessionLog.made + 1]
    /\ UNCHANGED << lastSaved, showRatingPrompt, waitingForInteraction >>
    /\ StoreFrame

NewCall(fn, openingId, rating, correct, total) ==
    [fn |-> fn, openingId |-> openingId, rating |-> rating,
     accuracy |-> Accuracy(correct, total), correctMoves |-> correct, totalMoves |-> total,
     stage |-> "getOpeningProgress", now |-> 0, toSave |-> Undefined, item |-> NoItem,
     overlapped |-> FALSE]

\* rateOpening(rating) of useOpeningPractice, picked in the rating prompt:
\* ProgressTracker.updateRating(opening.id, rating) is called.  One rating is
\* in flight at a time.
CallUpdateRating(openingId, rating) ==
    /\ showRatingPrompt
    /\ \A i \in 1..Len(inflight) : inflight[i].fn # "updateRating"
    /\ BeginCall(NewCall("updateRating", openingId, rating, 0, 0))

\* endSession's updateProgress: ProgressTracker.updateSessionProgress(
\* openingId, accuracy, correctMoves, totalMoves) is called
CallUpdateSessionProgress(openingId, correct, total) ==
    BeginCall(NewCall("updateSessionProgress", openingId, "-", correct, total))

\* `await this.getOpeningProgress(openingId)` resolves: the call builds the
\* record to save and reaches saveOpeningProgress's `await getItem`.
GetOpeningProgressResolves(i) ==
    /\ i \in 1..Len(inflight)
    /\ inflight[i].stage = "getOpeningProgress"
    /\ LET call == inflight[i]
           progress == GetOpeningProgress(lastSaved, call.openingId)
           toSave == IF call.fn = "updateRating"
                     THEN RatedProgress(progress, call.openingId, call.rating, Now)
                     ELSE SessionProgress(progress, call.openingId, call.accuracy,
                                          call.correctMoves, call.totalMoves, Now)
       IN  inflight' = [inflight EXCEPT ![i].stage = "getItem",
                                        ![i].now = Now,
                                        ![i].toSave = Defined(toSave)]
    /\ UNCHANGED << lastSaved, sessionLog, showRatingPrompt, waitingForInteraction >>
    /\ StoreFrame

\* saveOpeningProgress's `await AsyncStorage.getItem` resolves: the record is
\* put into the item read, and setItem is called with the result.
GetItemResolves(i) ==
    /\ i \in 1..Len(inflight)
    /\ inflight[i].stage = "getItem"
    /\ inflight' =
          [inflight EXCEPT
              ![i].stage = "setItem",
              ![i].item = [lastSaved EXCEPT ![inflight[i].openingId] =
                              Defined(ProgressToSave(inflight[i].toSave.value))]]
    /\ UNCHANGED << lastSaved, sessionLog, showRatingPrompt, waitingForInteraction >>
    /\ StoreFrame

\* `await AsyncStorage.setItem` resolves: the item is written and the call
\* returns.
SetItemResolves(i) ==
    /\ i \in 1..Len(inflight)
    /\ inflight[i].stage = "setItem"
    /\ lastSaved' = inflight[i].item
    /\ inflight' = Remove(inflight, i)
    /\ sessionLog' =
          [sessionLog EXCEPT
              !.accuracies = IF inflight[i].fn = "updateSessionProgress"
                             THEN Append(sessionLog.accuracies, inflight[i].accuracy)
                             ELSE sessionLog.accuracies,
              !.overlapped = (sessionLog.overlapped \/ inflight[i].overlapped)]
    /\ showRatingPrompt' = (showRatingPrompt /\ inflight[i].fn # "updateRating")
    /\ UNCHANGED waitingForInteraction
    /\ StoreFrame

\* handleInteraction after a session ended: the rating prompt opens
StorePromptOpens ==
    /\ ~showRatingPrompt
    /\ showRatingPrompt' = TRUE
    /\ UNCHANGED << lastSaved, inflight, sessionLog, waitingForInteraction >>
    /\ StoreFrame

\* skipRating of useOpeningPractice, picked in the rating prompt
StoreSkipRating ==
    /\ showRatingPrompt
    /\ showRatingPrompt' = FALSE
    /\ waitingForInteraction' = FALSE
    /\ UNCHANGED << lastSaved, inflight, sessionLog >>
    /\ StoreFrame

NextStore ==
    \/ \E id \in TrackedIds, rating \in Ratings : CallUpdateRating(id, rating)
    \/ \E id \in TrackedIds, r \in SessionResults : CallUpdateSessionProgress(id, r[1], r[2])
    \/ \E i \in 1..Len(inflight) : GetOpeningProgressResolves(i)
    \/ \E i \in 1..Len(inflight) : GetItemResolves(i)
    \/ \E i \in 1..Len(inflight) : SetItemResolves(i)
    \/ StorePromptOpens
    \/ StoreSkipRating

SpecStore == InitStore /\ [][NextStore]_vars

\* The same calls made for either of two openings, MaxPairCalls of them.
MaxPairCalls == 3      \* calls made for two openings in one behaviour

NextStorePair ==
    \/ \E id \in StoredIds, rating \in Ratings :
          sessionLog.made < MaxPairCalls /\ CallUpdateRating(id, rating)
    \/ \E id \in StoredIds, r \in SessionResults :
          sessionLog.made < MaxPairCalls /\ CallUpdateSessionProgress(id, r[1], r[2])
    \/ \E i \in 1..Len(inflight) : GetOpeningProgressResolves(i)
    \/ \E i \in 1..Len(inflight) : GetItemResolves(i)
    \/ \E i \in 1..Len(inflight) : SetItemResolves(i)
    \/ StorePromptOpens
    \/ StoreSkipRating

SpecStorePair == InitStore /\ [][NextStorePair]_vars

\* ------------------------------------ calculateMasteryLevel, called directly
\* lastEvent holds the arguments of the call and, after it, its result.
MaxAccuracy == 100         \* accuracies are 0, 0.5, 1, ..., MaxAccuracy
MaxTimesPracticed == 6     \* timesPracticed is in 0..MaxTimesPracticed

MasteryAccuracies ==
    { DblDivInt(DblFromInt(n), 2) : n \in 0..(2 * MaxAccuracy) }

InitMastery ==
    /\ opening \in TrackedIds
    /\ userColor = "white"
    /\ moveHistory = << >>
    /\ aiHistory = << >>
    /\ correctMoves = 0
    /\ totalMoves = 0
    /\ sessionEnded = FALSE
    /\ showRatingPrompt = FALSE
    /\ hasMadeMistake = FALSE
    /\ openingCompleted = FALSE
    /\ waitingForInteraction = FALSE
    /\ cap = Env(<< >>, 0, 0, FALSE, opening, userColor, 0)
    /\ timers = << >>
    /\ inflight = << >>
    /\ lastSaved = NoItem
    /\ left = FALSE
    /\ sessionNo = 0
    /\ ended = NotEnded
    /\ sessionLog = NoCalls
    /\ \E a \in MasteryAccuracies, n \in 0..MaxTimesPracticed :
          lastEvent = Event("arguments", [averageAccuracy |-> a, timesPracticed |-> n])

\* ProgressTracker.calculateMasteryLevel(averageAccuracy, timesPracticed)
CallCalculateMasteryLevel ==
    /\ lastEvent.kind = "arguments"
    /\ lastEvent' =
          Event("calculateMasteryLevel",
                [averageAccuracy |-> lastEvent.flag.averageAccuracy,
                 timesPracticed |-> lastEvent.flag.timesPracticed,
                 result |-> CalculateMasteryLevel(lastEvent.flag.averageAccuracy,
                                                  lastEvent.flag.timesPracticed)])
    /\ UNCHANGED << opening, userColor, moveHistory, aiHistory, correctMoves, totalMoves,
                    sessionEnded, showRatingPrompt, hasMadeMistake, openingCompleted,
                    waitingForInteraction, cap, timers, inflight, lastSaved, left,
                    sessionNo, ended, sessionLog >>

NextMastery == CallCalculateMasteryLevel

SpecMastery == InitMastery /\ [][NextMastery]_vars

\* --------------------------------------------- AIOpponent, called directly
\* An AIOpponent and its engine, driven call by call: opening and aiHistory
\* are the opponent's private fields, moveHistory is the engine's game, and
\* lastEvent holds what the last getMove returned.
MaxPly == 3        \* moves made on the engine
MaxRecorded == 2   \* moves recorded with recordUserMove

NoOpening == "none"

\* the moves of the lines of an opening
LineMoves(o) == UNION { { l[i] : i \in 1..Len(l) } : l \in Lines(o) }

InitOpponent ==
    /\ opening = NoOpening
    /\ aiHistory = << >>
    /\ moveHistory = << >>
    /\ userColor = "white"
    /\ correctMoves = 0
    /\ totalMoves = 0
    /\ sessionEnded = FALSE
    /\ showRatingPrompt = FALSE
    /\ hasMadeMistake = FALSE
    /\ openingCompleted = FALSE
    /\ waitingForInteraction = FALSE
    /\ cap = Env(<< >>, 0, 0, FALSE, "kings-pawn-e4", userColor, 0)
    /\ timers = << >>
    /\ inflight = << >>
    /\ lastSaved = NothingSaved
    /\ left = FALSE
    /\ sessionNo = 0
    /\ ended = NotEnded
    /\ lastEvent = Event("none", FALSE)
    /\ sessionLog = NoCalls

OpponentFrame ==
    UNCHANGED << userColor, correctMoves, totalMoves, sessionEnded, showRatingPrompt,
                 hasMadeMistake, openingCompleted, waitingForInteraction, cap, timers,
                 inflight, lastSaved, left, sessionNo, ended, sessionLog >>

\* AIOpponent.setOpening(opening)
OpponentSetOpening(id) ==
    /\ opening = NoOpening
    /\ opening' = id
    /\ aiHistory' = << >>
    /\ lastEvent' = Event("none", FALSE)
    /\ UNCHANGED moveHistory
    /\ OpponentFrame

\* AIOpponent.recordUserMove(move)
OpponentRecordUserMove(move) ==
    /\ Len(aiHistory) < MaxRecorded
    /\ aiHistory' = Append(aiHistory, move)
    /\ lastEvent' = Event("none", FALSE)
    /\ UNCHANGED << opening, moveHistory >>
    /\ OpponentFrame

\* ChessEngine.makeMove(from, to) with a legal move
OpponentEngineMakeMove(move) ==
    /\ Len(moveHistory) < MaxPly
    /\ move \in GetValidMoves(moveHistory)
    /\ moveHistory' = Append(moveHistory, EngineMakeMove(moveHistory, move.from, move.to))
    /\ lastEvent' = Event("none", FALSE)
    /\ UNCHANGED << opening, aiHistory >>
    /\ OpponentFrame

\* AIOpponent.getMove()
OpponentGetMove ==
    /\ \E move \in (IF opening = NoOpening THEN GetRandomValidMove(moveHistory)
                    ELSE AIGetMove(Opening(opening), aiHistory, moveHistory)) :
          lastEvent' = Event("getMove", move)
    /\ UNCHANGED << opening, aiHistory, moveHistory >>
    /\ OpponentFrame

NextOpponent ==
    \/ \E id \in OpeningIds : OpponentSetOpening(id)
    \/ \E move \in (IF opening = NoOpening THEN {} ELSE LineMoves(Opening(opening))) :
          OpponentRecordUserMove(move)
    \/ \E move \in GetValidMoves(moveHistory) : OpponentEngineMakeMove(move)
    \/ OpponentGetMove

SpecOpponent == InitOpponent /\ [][NextOpponent]_vars

\* ------------------------------------------ OpeningRoulette, called directly
DEFAULT_WEIGHTS ==
    [hard |-> NumFromInt(3), good |-> NumFromInt(1), easy |-> Decimal(3, 10),
     unrated |-> NumFromInt(1)]

DEFAULT_TIME_DECAY ==
    [enabled |-> TRUE, decayDays |-> 7, maxDecayMultiplier |-> NumFromInt(2)]

FUZZ_FACTOR == Decimal(1, 10)

\* the floor of calculateWeight, 0.01
MinWeight == Decimal(1, 100)

\* 1000 * 60 * 60 * 24
DayMs == 86400000

\* new OpeningRoulette(weights, timeDecayConfig): the given fields replace
\* the defaults
OpeningRoulette(weights, timeDecayConfig) ==
    [weights |->
        [r \in DOMAIN DEFAULT_WEIGHTS |->
            IF r \in DOMAIN weights THEN weights[r] ELSE DEFAULT_WEIGHTS[r]],
     timeDecayConfig |->
        [f \in DOMAIN DEFAULT_TIME_DECAY |->
            IF f \in DOMAIN timeDecayConfig THEN timeDecayConfig[f]
            ELSE DEFAULT_TIME_DECAY[f]]]

\* getDaysSinceLastPractice, with Date.now() = now
GetDaysSinceLastPractice(lastPracticed, now) == (now - lastPracticed) \div DayMs

\* A time decay that is not capped.
ApplyTimeDecay_Uncapped(roulette, baseWeight, lastPracticed, now) ==
    LET daysSince == GetDaysSinceLastPractice(lastPracticed, now)
        decayDays == roulette.timeDecayConfig.decayDays
    IN  IF daysSince <= decayDays THEN baseWeight
        ELSE NumMul(baseWeight,
                    NumAdd(NumFromInt(1), Decimal(daysSince - decayDays, decayDays)))

\* applyTimeDecay(baseWeight, lastPracticed)
ApplyTimeDecay(roulette, baseWeight, lastPracticed, now) ==
    LET daysSince == GetDaysSinceLastPractice(lastPracticed, now)
        decayDays == roulette.timeDecayConfig.decayDays
        daysOverThreshold == daysSince - decayDays
        decayMultiplier == NumAdd(NumFromInt(1), Decimal(daysOverThreshold, decayDays))
        cappedMultiplier ==
            NumMin(decayMultiplier, roulette.timeDecayConfig.maxDecayMultiplier)
    IN  IF daysSince <= decayDays THEN baseWeight
        ELSE NumMul(baseWeight, cappedMultiplier)

\* applyFuzzFactor(weight), with Math.random() = random
ApplyFuzzFactor(weight, random) ==
    LET fuzz == NumMul(NumMul(NumSub(random, Decimal(1, 2)), NumFromInt(2)), FUZZ_FACTOR)
    IN  NumMul(weight, NumAdd(NumFromInt(1), fuzz))

\* progress?.difficultyRating || 'unrated'
RatingOf(progress) ==
    IF progress.defined /\ progress.value.difficultyRating.defined
    THEN progress.value.difficultyRating.value
    ELSE "unrated"

\* the weight of calculateWeight before the fuzz factor is applied
WeightBeforeFuzz(roulette, progress, now) ==
    LET rating == RatingOf(progress)
        weight == roulette.weights[rating]
    IN  IF rating = "easy" /\ roulette.timeDecayConfig.enabled
        THEN ApplyTimeDecay(roulette, weight, progress.value.lastPracticed, now)
        ELSE weight

\* A calculateWeight without the floor.
CalculateWeight_NoFloor(roulette, progress, now, random) ==
    ApplyFuzzFactor(WeightBeforeFuzz(roulette, progress, now), random)

\* calculateWeight(opening, progress)
CalculateWeight(roulette, progress, now, random) ==
    NumMax(ApplyFuzzFactor(WeightBeforeFuzz(roulette, progress, now), random), MinWeight)

\* items.reduce((sum, item) => sum + item.weight, 0)
RECURSIVE TotalWeight(_)
TotalWeight(items) ==
    IF items = << >> THEN NumFromInt(0)
    ELSE NumAdd(TotalWeight(SubSeq(items, 1, Len(items) - 1)), items[Len(items)].weight)

\* A loop that goes on until the rest is negative.
RECURSIVE SubtractWeights_Strict(_, _, _)
SubtractWeights_Strict(items, i, random) ==
    IF i > Len(items) THEN items[Len(items)].opening
    ELSE LET rest == NumSub(random, items[i].weight)
         IN  IF NumLess(rest, NumFromInt(0)) THEN items[i].opening
             ELSE SubtractWeights_Strict(items, i + 1, rest)

\* the loop of weightedRandomSelect from item i on, and its fallback
RECURSIVE SubtractWeights(_, _, _)
SubtractWeights(items, i, random) ==
    IF i > Len(items) THEN items[Len(items)].opening
    ELSE LET rest == NumSub(random, items[i].weight)
         IN  IF NumLeq(rest, NumFromInt(0)) THEN items[i].opening
             ELSE SubtractWeights(items, i + 1, rest)

\* weightedRandomSelect(items), with Math.random() = random
WeightedRandomSelect(items, random) ==
    SubtractWeights(items, 1, NumMul(random, TotalWeight(items)))

NoOpeningSelected == "-"

\* openings.map(opening => ({ opening, weight: calculateWeight(...) })):
\* randoms[i] is the number that the i-th calculateWeight draws
OpeningsWithWeights(roulette, openings, progressData, now, randoms) ==
    [i \in 1..Len(openings) |->
        [opening |-> openings[i],
         weight |-> CalculateWeight(roulette, progressData[openings[i]], now, randoms[i])]]

\* A selectOpening that weighs a single opening like any other list.
SelectOpening_AlwaysWeighted(roulette, openings, progressData, now, randoms) ==
    IF Len(openings) = 0
    THEN [error |-> TRUE, opening |-> NoOpeningSelected, drawn |-> 0]
    ELSE [error |-> FALSE,
          opening |-> WeightedRandomSelect(
              OpeningsWithWeights(roulette, openings, progressData, now, randoms),
              randoms[Len(openings) + 1]),
          drawn |-> Len(openings) + 1]

\* selectOpening(openings, progressData); randoms are the values that the
\* calls of Math.random() return, in order.  The result names the opening,
\* or the error thrown, and how many random numbers were drawn.
SelectOpening(roulette, openings, progressData, now, randoms) ==
    IF Len(openings) = 0
    THEN [error |-> TRUE, opening |-> NoOpeningSelected, drawn |-> 0]
    ELSE IF Len(openings) = 1
    THEN [error |-> FALSE, opening |-> openings[1], drawn |-> 0]
    ELSE [error |-> FALSE,
          opening |-> WeightedRandomSelect(
              OpeningsWithWeights(roulette, openings, progressData, now, randoms),
              randoms[Len(openings) + 1]),
          drawn |-> Len(openings) + 1]

\* The roulette is driven call by call: lastEvent holds the arguments of a
\* call, and after the call the arguments, the random numbers drawn and the
\* result.
RandomBits == 4    \* Math.random() returns multiples of 2^-RandomBits ...
MaxOpenings == 3   \* openings in a list
MaxDays == 16      \* days since an opening was practised

\* ... and the largest number below 1
MaxRandom ==
    Num(FALSE, DblSub(DblFromInt(1), DblRound(<< 1 >>, 0 - SignificandBits, FALSE)))

RandomOf(k, bits) == Num(FALSE, DblRound(BigFromInt(k), 0 - bits, FALSE))

Randoms == { RandomOf(k, RandomBits) : k \in 0..(Pow2(RandomBits) - 1) } \cup {MaxRandom}

\* the numbers drawn for the fuzz factors of selectOpening: no fuzz, and the
\* largest
FuzzRandoms == { RandomOf(1, 1), MaxRandom }

\* the numbers drawn by calculateWeight and by selectOpening's selection
QuarterRandoms == { RandomOf(k, 2) : k \in 0..3 } \cup {MaxRandom}

Roulettes ==
    { OpeningRoulette(<< >>, << >>),
      OpeningRoulette([hard |-> NumFromInt(5), easy |-> Decimal(1, 10)], << >>),
      OpeningRoulette([good |-> NumFromInt(0), easy |-> Decimal(-3, 10)], << >>),
      OpeningRoulette(<< >>, [enabled |-> FALSE]),
      OpeningRoulette(<< >>, [decayDays |-> 3, maxDecayMultiplier |-> Decimal(3, 2)]),
      OpeningRoulette(<< >>, [maxDecayMultiplier |-> Decimal(1, 2)]) }

\* Date.now() of the calls
RouletteNow == (MaxDays + 1) * DayMs

\* lastPracticed: whole days and half a day before RouletteNow
PracticeTimes ==
    { RouletteNow - d * DayMs - h : d \in 0..MaxDays, h \in {0, DayMs \div 2} }

RouletteRatings == {Undefined, Defined("hard"), Defined("good"), Defined("easy")}

RouletteProgress(ratings, times) ==
    {Undefined} \cup
    { Defined([difficultyRating |-> r, lastPracticed |-> t]) : r \in ratings, t \in times }

\* the progress records of the lists given to selectOpening
ListedProgress ==
    {Undefined} \cup
    { Defined([difficultyRating |-> Defined("hard"), lastPracticed |-> RouletteNow]),
      Defined([difficultyRating |-> Defined("easy"),
               lastPracticed |-> RouletteNow - MaxDays * DayMs]) }

RouletteOpenings ==
    << "kings-pawn-e4", "italian-game", "ruy-lopez", "queens-gambit", "london-system" >>

OpeningLists == { SubSeq(RouletteOpenings, 1, n) : n \in 0..MaxOpenings }

\* weights that calculateWeight returns
ItemWeights ==
    { CalculateWeight(OpeningRoulette(<< >>, << >>), progress, RouletteNow, random) :
        progress \in {Undefined,
                      Defined([difficultyRating |-> Defined("easy"),
                               lastPracticed |-> RouletteNow])},
        random \in {RandomOf(0, 1)} \cup FuzzRandoms }
    \cup {MinWeight}

InitRoulette ==
    /\ opening = "kings-pawn-e4"
    /\ aiHistory = << >>
    /\ moveHistory = << >>
    /\ userColor = "white"
    /\ correctMoves = 0
    /\ totalMoves = 0
    /\ sessionEnded = FALSE
    /\ showRatingPrompt = FALSE
    /\ hasMadeMistake = FALSE
    /\ openingCompleted = FALSE
    /\ waitingForInteraction = FALSE
    /\ cap = Env(<< >>, 0, 0, FALSE, opening, userColor, 0)
    /\ timers = << >>
    /\ inflight = << >>
    /\ lastSaved = NothingSaved
    /\ left = FALSE
    /\ sessionNo = 0
    /\ ended = NotEnded
    /\ sessionLog = NoCalls
    /\ \/ \E roulette \in Roulettes,
            progress \in RouletteProgress(RouletteRatings, PracticeTimes) :
            lastEvent = Event("call", [fn |-> "calculateWeight", roulette |-> roulette,
                                       progress |-> progress, now |-> RouletteNow])
       \/ \E n \in 2..MaxOpenings :
            \E weights \in [1..n -> ItemWeights] :
               lastEvent = Event("call",
                   [fn |-> "weightedRandomSelect",
                    items |-> [i \in 1..n |-> [opening |-> RouletteOpenings[i],
                                               weight |-> weights[i]]]])
       \/ \E roulette \in Roulettes, openings \in OpeningLists :
            \E progressData \in [{ openings[i] : i \in 1..Len(openings) } -> ListedProgress] :
               lastEvent = Event("call", [fn |-> "selectOpening", roulette |-> roulette,
                                          openings |-> openings,
                                          progressData |-> progressData,
                                          now |-> RouletteNow])

RouletteFrame ==
    UNCHANGED << opening, userColor, moveHistory, aiHistory, correctMoves, totalMoves,
                 sessionEnded, showRatingPrompt, hasMadeMistake, openingCompleted,
                 waitingForInteraction, cap, timers, inflight, lastSaved, left,
                 sessionNo, ended, sessionLog >>

\* calculateWeight(opening, progress)
CallCalculateWeight ==
    /\ lastEvent.kind = "call"
    /\ lastEvent.flag.fn = "calculateWeight"
    /\ LET args == lastEvent.flag
       IN  \E random \in QuarterRandoms :
              lastEvent' = Event("return",
                  [fn |-> "calculateWeight", roulette |-> args.roulette,
                   progress |-> args.progress, now |-> args.now, random |-> random,
                   beforeFuzz |-> WeightBeforeFuzz(args.roulette, args.progress, args.now),
                   result |-> CalculateWeight(args.roulette, args.progress, args.now,
                                              random)])
    /\ RouletteFrame

\* weightedRandomSelect(items)
CallWeightedRandomSelect ==
    /\ lastEvent.kind = "call"
    /\ lastEvent.flag.fn = "weightedRandomSelect"
    /\ LET args == lastEvent.flag
       IN  \E random \in Randoms :
              lastEvent' = Event("return",
                  [fn |-> "weightedRandomSelect", items |-> args.items,
                   random |-> random,
                   result |-> WeightedRandomSelect(args.items, random)])
    /\ RouletteFrame

\* selectOpening(openings, progressData)
CallSelectOpening ==
    /\ lastEvent.kind = "call"
    /\ lastEvent.flag.fn = "selectOpening"
    /\ LET args == lastEvent.flag
           n == Len(args.openings)
       IN  \E fuzzes \in [1..n -> FuzzRandoms], random \in QuarterRandoms :
              LET randoms == Append(fuzzes, random)
                  result == SelectOpening(args.roulette, args.openings,
                                          args.progressData, args.now, randoms)
              IN  lastEvent' = Event("return",
                      [fn |-> "selectOpening", roulette |-> args.roulette,
                       openings |-> args.openings, progressData |-> args.progressData,
                       now |-> args.now, randoms |-> SubSeq(randoms, 1, result.drawn),
                       result |-> result])
    /\ RouletteFrame

NextRoulette ==
    \/ CallCalculateWeight
    \/ CallWeightedRandomSelect
    \/ CallSelectOpening

SpecRoulette == InitRoulette /\ [][NextRoulette]_vars

\* ---------------------------------- GamificationTracker, called call by call
\* The tracker keeps two items in AsyncStorage, the gamification data and the
\* XP history; lastSaved holds both.  Its callers await every call, so a call
\* runs from its first storage access to its last before the next is made.
\* sessionLog lists the events given to awardXP, oldest first; an event's
\* timestamp is its number in that list.  lastPracticeDate is left out of the
\* data: no call modelled here reads it.
ACHIEVEMENTS ==
    <<
       [id |-> "first_master", category |-> "mastery", requirement |-> 1, xpReward |-> 50],
       [id |-> "opening_scholar", category |-> "mastery", requirement |-> 5, xpReward |-> 200],
       [id |-> "opening_expert", category |-> "mastery", requirement |-> 10, xpReward |-> 350],
       [id |-> "grandmaster", category |-> "mastery", requirement |-> 15, xpReward |-> 500],
       [id |-> "getting_started", category |-> "streak", requirement |-> 3, xpReward |-> 25],
       [id |-> "week_warrior", category |-> "streak", requirement |-> 7, xpReward |-> 100],
       [id |-> "fortnight_champion", category |-> "streak", requirement |-> 14, xpReward |-> 250],
       [id |-> "month_master", category |-> "streak", requirement |-> 30, xpReward |-> 500],
       [id |-> "century_legend", category |-> "streak", requirement |-> 100, xpReward |-> 1000],
       [id |-> "first_perfect", category |-> "accuracy", requirement |-> 1, xpReward |-> 30],
       [id |-> "perfectionist", category |-> "accuracy", requirement |-> 10, xpReward |-> 150],
       [id |-> "flawless_master", category |-> "accuracy", requirement |-> 25, xpReward |-> 400],
       [id |-> "curious_mind", category |-> "exploration", requirement |-> 5, xpReward |-> 40],
       [id |-> "explorer", category |-> "exploration", requirement |-> 10, xpReward |-> 100],
       [id |-> "repertoire_builder", category |-> "exploration", requirement |-> 20, xpReward |-> 250],
       [id |-> "opening_encyclopedia", category |-> "exploration", requirement |-> 30, xpReward |-> 500],
       [id |-> "first_hour", category |-> "dedication", requirement |-> 60, xpReward |-> 30],
       [id |-> "committed_learner", category |-> "dedication", requirement |-> 300, xpReward |-> 150],
       [id |-> "dedicated_student", category |-> "dedication", requirement |-> 600, xpReward |-> 200],
       [id |-> "chess_devotee", category |-> "dedication", requirement |-> 1500, xpReward |-> 500]
    >>

\* getXPHistory(limit: number = 20)
HistoryDefaultLimit == 20

\* history.slice(0, 100)
HistoryKept == 100

\* XP_CONFIG.baseSessionXP
BaseSessionXP == 10

MaxAwards == 23    \* events given to awardXP

\* the data that initialize() saves
InitialData ==
    [totalXP |-> 0, level |-> 1, xpForNextLevel |-> 100, currentStreak |-> 0,
     longestStreak |-> 0, unlockedAchievements |-> << >>,
     achievementProgress |-> << >>]

NoGamification == [data |-> Undefined, history |-> Undefined]

RECURSIVE Pow3(_)
Pow3(n) == IF n = 0 THEN 1 ELSE 3 * Pow3(n - 1)

\* Math.floor(100 * Math.pow(1.5, level - 1)): the power and the product are
\* exact in a double for the levels of the model
XpRequired(level) == (100 * Pow3(level - 1)) \div Pow2(level - 1)

\* the loop of calculateLevel
RECURSIVE CalculateLevelFrom(_, _, _, _)
CalculateLevelFrom(xp, level, xpRequired, totalXP) ==
    IF totalXP + xpRequired <= xp
    THEN CalculateLevelFrom(xp, level + 1, XpRequired(level + 1), totalXP + xpRequired)
    ELSE [level |-> level, xpForNext |-> xpRequired]

CalculateLevel(xp) == CalculateLevelFrom(xp, 1, 100, 0)

\* load(): the stored data, or the data that initialize() saves first
GamLoad(store) ==
    IF store.data.defined THEN [data |-> store.data.value, store |-> store]
    ELSE [data |-> InitialData, store |-> [store EXCEPT !.data = Defined(InitialData)]]

\* save(data)
GamSave(store, data) == [store EXCEPT !.data = Defined(data)]

FirstEvents(events, n) == SubSeq(events, 1, IF n < Len(events) THEN n ELSE Len(events))

\* getXPHistory(limit)
GetXPHistory(store, limit) ==
    IF store.history.defined THEN FirstEvents(store.history.value, limit) ELSE << >>

\* saveXPEvent(event)
SaveXPEvent(store, event) ==
    [store EXCEPT !.history =
        Defined(FirstEvents(<< event >> \o GetXPHistory(store, HistoryDefaultLimit),
                            HistoryKept))]

\* awardXP(event): the store after the call, and the result
AwardXP(store, event) ==
    LET loaded == GamLoad(store)
        totalXP == loaded.data.totalXP + event.xp
        calculated == CalculateLevel(totalXP)
        data == [loaded.data EXCEPT !.totalXP = totalXP, !.level = calculated.level,
                                    !.xpForNextLevel = calculated.xpForNext]
    IN  [store |-> SaveXPEvent(GamSave(loaded.store, data), event),
         leveledUp |-> calculated.level > loaded.data.level]

\* getAchievementProgress: progress and sessions hold what the code counts
\* in the progress records and the session history
GetAchievementProgress(achievement, data, progress, sessions) ==
    CASE achievement.category = "mastery" -> progress.mastered
      [] achievement.category = "streak" -> data.longestStreak
      [] achievement.category = "accuracy" -> sessions.perfect
      [] achievement.category = "exploration" -> progress.openings
      [] achievement.category = "dedication" -> sessions.minutes
      [] OTHER -> 0

Includes(seq, x) == \E i \in 1..Len(seq) : seq[i] = x

UnlockEvent(achievement, timestamp) ==
    [type |-> "achievement_unlock", xp |-> achievement.xpReward, timestamp |-> timestamp,
     achievementId |-> achievement.id]

\* the function f with f[key] = value
SetProgress(f, key, value) ==
    [k \in DOMAIN f \cup {key} |-> IF k = key THEN value ELSE f[k]]

\* the loop of checkAchievements from achievement i on, and the save after
\* it; run holds the store, the data object of the caller, the achievements
\* unlocked and the events awarded so far
RECURSIVE CheckAchievementsFrom(_, _, _, _, _)
CheckAchievementsFrom(i, run, progress, sessions, clock) ==
    IF i > Len(ACHIEVEMENTS)
    THEN [run EXCEPT !.store = GamSave(run.store, run.data)]
    ELSE IF Includes(run.data.unlockedAchievements, ACHIEVEMENTS[i].id)
    THEN CheckAchievementsFrom(i + 1, run, progress, sessions, clock)
    ELSE LET achievement == ACHIEVEMENTS[i]
             currentProgress ==
                 GetAchievementProgress(achievement, run.data, progress, sessions)
             tracked ==
                 [run.data EXCEPT !.achievementProgress =
                     SetProgress(@, achievement.id, currentProgress)]
             event == UnlockEvent(achievement, clock + Len(run.awarded) + 1)
         IN  IF currentProgress >= achievement.requirement
             THEN CheckAchievementsFrom(i + 1,
                      [store |-> AwardXP(run.store, event).store,
                       data |-> [tracked EXCEPT !.unlockedAchievements =
                                    Append(@, achievement.id)],
                       unlocked |-> Append(run.unlocked, achievement),
                       awarded |-> Append(run.awarded, event)],
                      progress, sessions, clock)
             ELSE CheckAchievementsFrom(i + 1, [run EXCEPT !.data = tracked],
                                        progress, sessions, clock)

\* checkAchievements(data, progress, sessionHistory)
CheckAchievements(store, data, progress, sessions, clock) ==
    CheckAchievementsFrom(1, [store |-> store, data |-> data,
                              unlocked |-> << >>, awarded |-> << >>],
                          progress, sessions, clock)

\* what the stored progress records and session history amount to for the
\* achievements
ProgressCounts == { [mastered |-> m, openings |-> o] : m \in {0, 1}, o \in {1} }
SessionCounts == { [perfect |-> p, minutes |-> 0] : p \in {0, 1} }

InitGamification ==
    /\ opening = "kings-pawn-e4"
    /\ aiHistory = << >>
    /\ moveHistory = << >>
    /\ userColor = "white"
    /\ correctMoves = 0
    /\ totalMoves = 0
    /\ sessionEnded = FALSE
    /\ showRatingPrompt = FALSE
    /\ hasMadeMistake = FALSE
    /\ openingCompleted = FALSE
    /\ waitingForInteraction = FALSE
    /\ cap = Env(<< >>, 0, 0, FALSE, opening, userColor, 0)
    /\ timers = << >>
    /\ inflight = << >>
    /\ left = FALSE
    /\ sessionNo = 0
    /\ ended = NotEnded
    /\ sessionLog = << >>
    /\ lastSaved = NoGamification
    /\ lastEvent = Event("none", FALSE)

GamificationFrame ==
    UNCHANGED << opening, userColor, moveHistory, aiHistory, correctMoves, totalMoves,
                 sessionEnded, showRatingPrompt, hasMadeMistake, openingCompleted,
                 waitingForInteraction, cap, timers, inflight, left, sessionNo, ended >>

\* awardXP for a session, as endSession calls it
GamAwardXP ==
    /\ Len(sessionLog) < MaxAwards
    /\ LET event == [type |-> "session_complete", xp |-> BaseSessionXP,
                     timestamp |-> Len(sessionLog) + 1]
       IN  /\ lastSaved' = AwardXP(lastSaved, event).store
           /\ sessionLog' = Append(sessionLog, event)
           /\ lastEvent' = Event("return", [fn |-> "awardXP"])
    /\ GamificationFrame

\* checkAchievements, with the data that its caller has just loaded
GamCheckAchievements ==
    /\ Len(sessionLog) < MaxAwards
    /\ \E progress \in ProgressCounts, sessions \in SessionCounts :
          LET loaded == GamLoad(lastSaved)
              run == CheckAchievements(loaded.store, loaded.data, progress, sessions,
                                       Len(sessionLog))
          IN  /\ lastSaved' = run.store
              /\ sessionLog' = sessionLog \o run.awarded
              /\ lastEvent' = Event("return",
                     [fn |-> "checkAchievements", before |-> loaded.data.totalXP,
                      unlocked |-> run.unlocked])
    /\ GamificationFrame

NextGamification ==
    \/ GamAwardXP
    \/ GamCheckAchievements

SpecGamification == InitGamification /\ [][NextGamification]_vars

\* ------------------------------------------------------------------ claims
\* The session's outcome, read from the hook's state.
Completed == sessionEnded /\ openingCompleted
Failed == sessionEnded /\ hasMadeMistake
TheoryExhausted == sessionEnded /\ ended.why = "exhausted"
Active == ~sessionEnded

\* C1: the line matcher tries the alternate lines first, in catalog order,
\* and only then the main line: whenever the history the matcher is given is
\* a prefix of some alternate line, the first such alternate line is what it
\* returns, also when the main line matches too (empty history included).
C1_AlternateLinesFirst ==
    LET o == Opening(opening)
        alt == FirstMatchingAlternate(o.alternateLines, aiHistory, 1)
    IN  alt.found => FindMatchingLine(o, aiHistory) = alt

\* C2: in a fresh session in which every move so far is a move of the line
\* (no mistake, not ended by hand), the outcome is Completed exactly when the
\* move history is as long as the line the matcher selects for it: not
\* earlier and not later.
C2_CompletedExactlyAtLineEnd ==
    LET line == FindMatchingLine(Opening(opening), moveHistory)
    IN  ( /\ sessionNo = 0
          /\ ~hasMadeMistake
          /\ ended.why \in {"none", "completed"}
          /\ line.found )
        => (Completed <=> Len(moveHistory) = Len(line.moves))

\* C3: when a session in which the learner made at least one move reaches a
\* terminal outcome, endSession saves a progress update computed from the
\* counters that include the learner's terminal move; a session ended by a
\* wrong move saves an accuracy below 100.
C3_TerminalAccuracyPersisted ==
    (ended.why \in {"completed", "mistake", "exhausted"} /\ ended.totalNow > 0)
    => /\ ended.persisted
       /\ ended.totalMoves = ended.totalNow
       /\ ended.correctMoves = ended.correctNow
       /\ (ended.why = "mistake"
              => DblLess(Accuracy(ended.correctMoves, ended.totalMoves), DblFromInt(100)))

\* A restart: resetSession or setOpening runs in this step.
Restarts == sessionNo' # sessionNo

\* C4: a legal learner move that is not the theory move adds one to
\* totalMoves, leaves correctMoves alone, marks the session as failed and
\* starts no reply timer; and once the session has a wrong move, no opponent
\* move is applied to it (the move history only changes by a restart).
C4_WrongMoveFails ==
    [][ /\ \A q \in EngineMoves :
             ( /\ MakeUserMove(q[1], q[2])
               /\ ~IsMoveInTheory(Opening(opening), aiHistory,
                                  EngineMakeMove(moveHistory, q[1], q[2])) )
             => /\ totalMoves' = totalMoves + 1
                /\ correctMoves' = correctMoves
                /\ hasMadeMistake'
                /\ \A i \in 1..Len(timers') :
                       timers'[i].kind = "reply" => i <= Len(timers)
        /\ (hasMadeMistake /\ ~Restarts) => moveHistory' = moveHistory
      ]_vars

\* C5: when a reply of the opponent in a session without a mistake makes the
\* move history as long as the line the matcher selects for it, the session
\* is Completed in that very step.
C5_CompletedAfterOpponentMove ==
    [][ \A i \in 1..Len(timers) :
          LET line == FindMatchingLine(Opening(opening), moveHistory')
          IN  ( /\ ReplyTimerFires(i)
                /\ timers[i].env.session = sessionNo
                /\ ~sessionEnded /\ ~hasMadeMistake
                /\ moveHistory' # moveHistory
                /\ line.found
                /\ Len(moveHistory') = Len(line.moves) )
              => Completed'
      ]_vars

\* C6: when the reply timer of a correct, non-completing learner move runs in
\* a session that is still Active, the session becomes TheoryExhausted if the
\* matcher has no expected move for the opponent's side and none for the
\* learner's side, and otherwise it does not end as exhausted.
C6_ExhaustedIffNeitherSideHasTheory ==
    [][ \A i \in 1..Len(timers) :
          LET aiColor == IF userColor = "white" THEN "black" ELSE "white"
              neither ==
                  /\ GetExpectedMove(Opening(opening), moveHistory, aiColor) = NoMove
                  /\ GetExpectedMove(Opening(opening), moveHistory, userColor) = NoMove
          IN  ( /\ ReplyTimerFires(i)
                /\ timers[i].env.session = sessionNo
                /\ ~sessionEnded /\ ~hasMadeMistake
                /\ GetTurn(moveHistory) = aiColor )
              => (TheoryExhausted' <=> neither)
      ]_vars

\* An endSession call made for the reason `why` returns in this step: at once
\* when it saves nothing, else when its last await settles.
EndSessionReturns(why) ==
    \/ ended' # ended /\ ended'.why = why /\ ~ended'.persisted
    \/ \E i \in 1..Len(inflight) :
          inflight[i].why = why /\ inflight' = Remove(inflight, i)

\* The rating prompt appears only by handleInteraction while waiting.
PromptOnlyByInteraction ==
    (showRatingPrompt' /\ ~showRatingPrompt) => (waitingForInteraction /\ HandleInteraction)

C8_ReplySuppressedAfterEnd ==
    [][ \A i \in 1..Len(timers) :
          ( /\ ReplyTimerFires(i)
            /\ timers[i].env.session = sessionNo
            /\ sessionEnded )
          => /\ moveHistory' = moveHistory
             /\ aiHistory' = aiHistory
      ]_vars

\* C9: when an await of an endSession call made before the last restart
\* settles, the state of the session in progress stays as it is.
C9_StalePersistenceChangesNothing ==
    [][ \A i \in 1..Len(inflight), ok \in BOOLEAN :
          ( /\ UpdateProgressSettles(i, ok) \/ SaveSessionStatsSettles(i, ok)
            /\ inflight[i].session < sessionNo )
          => UNCHANGED << moveHistory, aiHistory, correctMoves, totalMoves,
                          sessionEnded, showRatingPrompt, hasMadeMistake,
                          openingCompleted, waitingForInteraction >>
      ]_vars

\* C10: when the progress write or the session-statistics write of an
\* endSession call fails, the failure is logged and the call goes on to its
\* end: nothing is started again (no new call in flight, no timer), nothing
\* is stored, the session the call belongs to is ended, and if the call asked
\* for a rating the session waits for the interaction.
C10_PersistenceFailureTolerated ==
    [][ \A i \in 1..Len(inflight) :
          (UpdateProgressSettles(i, FALSE) \/ SaveSessionStatsSettles(i, FALSE))
          => /\ lastEvent'.kind \in {"progressFailed", "statsFailed"}
             /\ inflight' = Remove(inflight, i)
             /\ timers' = timers
             /\ lastSaved' = lastSaved
             /\ (inflight[i].session = sessionNo => sessionEnded')
             /\ (inflight[i].showRating => waitingForInteraction')
      ]_vars

C10_Witness ==
    /\ lastEvent.kind = "progressFailed" /\ lastEvent.flag
    /\ ended.persisted /\ inflight = << >>
    /\ sessionEnded
    /\ waitingForInteraction
    /\ lastSaved = NothingSaved

\* C11: a makeUserMove call with a move the engine refuses, or made when it
\* is not the learner's turn or after the session has ended, returns false
\* and changes nothing: move history, counters, outcome, the opponent's own
\* history and the pending timers (no reply is started) stay as they are.
C11_RefusedMoveChangesNothing ==
    [][ \A q \in EngineMoves :
          ( /\ MakeUserMove(q[1], q[2]) \/ MakeUserMoveRefused(q[1], q[2])
            /\ \/ GetTurn(moveHistory) # userColor
               \/ sessionEnded
               \/ ~IsMoveValid(moveHistory, q[1], q[2]) )
          => /\ lastEvent'.kind = "moveRefused"
             /\ UNCHANGED << moveHistory, aiHistory, correctMoves, totalMoves,
                             sessionEnded, openingCompleted, hasMadeMistake,
                             waitingForInteraction, timers, inflight, ended >>
      ]_vars

C11_Witness ==
    /\ lastEvent.kind = "moveRefused"
    /\ sessionEnded
    /\ GetTurn(moveHistory) = userColor
    /\ totalMoves > 0

\* C12: in every reachable session state 0 <= correctMoves <= totalMoves,
\* whatever sequence of setOpening, makeUserMove, opponent replies, endSession
\* and resetSession led to it.
C12_CorrectWithinTotal ==
    /\ 0 <= correctMoves
    /\ correctMoves <= totalMoves

\* a second session in which the learner has played a correct and a wrong move
C12_Witness ==
    /\ sessionNo > 0
    /\ correctMoves > 0
    /\ totalMoves > correctMoves

\* The line the matcher selects for the history of the call.
SelectedLine == FindMatchingLine(Opening(opening), aiHistory)

\* C13: when the history is a proper prefix of the line the matcher selects,
\* the next move m of that line is accepted as theory: getExpectedMove for
\* the side of m returns m, and isMoveInTheory of m is true.
C13_NextLineMoveIsTheory ==
    (SelectedLine.found /\ Len(aiHistory) < Len(SelectedLine.moves)) =>
        LET m == SelectedLine.moves[Len(aiHistory) + 1]
        IN  /\ (lastEvent.kind = "getExpectedMove" /\ lastEvent.flag.color = m.color)
                   => lastEvent.flag.move = m
            /\ (lastEvent.kind = "isMoveInTheory" /\ lastEvent.flag.move = m)
                   => lastEvent.flag.result

\* C14: when the history equals the complete line the matcher selects,
\* getExpectedMove returns null, for either side.
C14_NoExpectedMoveAtLineEnd ==
    ( /\ SelectedLine.found
      /\ Len(aiHistory) = Len(SelectedLine.moves)
      /\ lastEvent.kind = "getExpectedMove" )
    => lastEvent.flag.move = NoMove

\* the history is a strict prefix of a line, main or alternate, of the opening
StrictPrefixOfALine ==
    \E l \in Lines(Opening(opening)) :
        /\ Len(aiHistory) < Len(l)
        /\ aiHistory = SubSeq(l, 1, Len(aiHistory))

\* C15: for a history that is a strict prefix of one of the opening's lines,
\* findMatchingLine returns a line, never null, whose moves agree with the
\* history on from, to and promotion at every index of the history.
C15_StrictPrefixFindsAgreeingLine ==
    (lastEvent.kind = "findMatchingLine" /\ StrictPrefixOfALine) =>
        /\ lastEvent.flag.found
        /\ Len(aiHistory) <= Len(lastEvent.flag.moves)
        /\ \A i \in 1..Len(aiHistory) :
              /\ aiHistory[i].from = lastEvent.flag.moves[i].from
              /\ aiHistory[i].to = lastEvent.flag.moves[i].to
              /\ aiHistory[i].promotion = lastEvent.flag.moves[i].promotion

\* a history past the end of the main line that only the alternate line holds
C15_Witness ==
    /\ lastEvent.kind = "findMatchingLine"
    /\ opening = "sicilian-defense"
    /\ aiHistory = SubSeq(SicilianOpen, 1, 3)
    /\ lastEvent.flag.found
    /\ lastEvent.flag.moves = SicilianOpen

\* What the rating call i, returning in this step, did to the record of its
\* opening: before is the record in the store when the call returns, and
\* call.now the date the call took from new Date().
RatingEffect(i) ==
    LET call == inflight[i]
        before == GetOpeningProgress(lastSaved, call.openingId)
        after == GetOpeningProgress(lastSaved', call.openingId)
        historyBefore == IF before.defined /\ before.value.ratingHistory.defined
                         THEN before.value.ratingHistory.value ELSE << >>
    IN  /\ after.defined
        /\ after.value.difficultyRating = Defined(call.rating)
        /\ after.value.lastRated = Defined(call.now)
        /\ after.value.ratingHistory.defined
        /\ Len(after.value.ratingHistory.value) = Len(historyBefore) + 1
        /\ SubSeq(after.value.ratingHistory.value, 1, Len(historyBefore)) = historyBefore
        /\ after.value.ratingHistory.value[Len(historyBefore) + 1] =
              [date |-> call.now, rating |-> call.rating]
        /\ before.defined =>
              /\ after.value.timesPracticed = before.value.timesPracticed
              /\ after.value.bestAccuracy = before.value.bestAccuracy
              /\ after.value.averageAccuracy = before.value.averageAccuracy
              /\ after.value.completed = before.value.completed
              /\ after.value.masteryLevel = before.value.masteryLevel

MasteryThreshold == << 60, 70, 80, 90, 95 >>

LevelsMet(a, n) == { k \in 1..5 : DblAtLeast(a, MasteryThreshold[k]) /\ n >= k }

\* C17: calculateMasteryLevel(a, n) is 0 when n = 0, otherwise the highest
\* level k from 5 down to 1 whose two thresholds are both met, and 0 if none
\* is met.
C17_MasteryThresholds ==
    lastEvent.kind = "calculateMasteryLevel" =>
        LET a == lastEvent.flag.averageAccuracy
            n == lastEvent.flag.timesPracticed
            met == LevelsMet(a, n)
        IN  lastEvent.flag.result =
               IF n = 0 \/ met = {} THEN 0
               ELSE CHOOSE k \in met : \A j \in met : j <= k

\* an accuracy exactly at a threshold, with more practices than its level asks
C17_Witness ==
    /\ lastEvent.kind = "calculateMasteryLevel"
    /\ lastEvent.flag.averageAccuracy = DblFromInt(80)
    /\ lastEvent.flag.timesPracticed = 5
    /\ lastEvent.flag.result = 3

\* a1 + ... + ak, added from the left
RECURSIVE DblSum(_)
DblSum(accs) ==
    IF accs = << >> THEN DblZero
    ELSE DblAdd(DblSum(SubSeq(accs, 1, Len(accs) - 1)), accs[Len(accs)])

\* (a1 + ... + ak) / k
Mean(accs) == DblDivInt(DblSum(accs), Len(accs))

\* max(a1, ..., ak)
RECURSIVE Best(_)
Best(accs) ==
    IF Len(accs) = 1 THEN accs[1]
    ELSE DblMax(Best(SubSeq(accs, 1, Len(accs) - 1)), accs[Len(accs)])

\* the running mean: m1 = a1, mk = (m(k-1) * (k-1) + ak) / k
RECURSIVE RunningMean(_)
RunningMean(accs) ==
    IF Len(accs) = 1 THEN accs[1]
    ELSE DblDivInt(DblAdd(DblMulInt(RunningMean(SubSeq(accs, 1, Len(accs) - 1)),
                                    Len(accs) - 1),
                          accs[Len(accs)]),
                   Len(accs))

\* k >= 1 updateSessionProgress calls for the opening have returned, none is
\* in flight, and nothing else wrote the record (no rating was made)
OnlySessionsSaved ==
    /\ inflight = << >>
    /\ Len(sessionLog.accuracies) >= 1
    /\ sessionLog.made = Len(sessionLog.accuracies)

TheoryMove ==
    IF opening = NoOpening THEN NoMove
    ELSE GetExpectedMove(Opening(opening), aiHistory, GetTurn(moveHistory))

TheoryMoveIsLegal ==
    /\ TheoryMove # NoMove
    /\ \E m \in GetValidMoves(moveHistory) :
          m.from = TheoryMove.from /\ m.to = TheoryMove.to

C20_OpponentHistoryInSync ==
    (Active /\ GetTurn(moveHistory) = userColor) => aiHistory = moveHistory

\* a call of the roulette that has returned
Returned(fn) == lastEvent.kind = "return" /\ lastEvent.flag.fn = fn

\* C21: selectOpening fails with an error exactly when the opening list is
\* empty; for every non-empty list, every progress map and every random draw
\* it returns an element of that list (for a one-element list, that element,
\* without drawing any random number).
C21_SelectOpeningFromList ==
    Returned("selectOpening") =>
        LET openings == lastEvent.flag.openings
            result == lastEvent.flag.result
        IN  /\ result.error <=> Len(openings) = 0
            /\ ~result.error => \E i \in 1..Len(openings) : result.opening = openings[i]
            /\ Len(openings) = 1 => result.opening = openings[1] /\ result.drawn = 0

\* selectOpening returned the one opening of its list, which has a progress
\* record, and drew no random number
C21_Witness ==
    /\ Returned("selectOpening")
    /\ Len(lastEvent.flag.openings) = 1
    /\ lastEvent.flag.progressData[lastEvent.flag.openings[1]].defined
    /\ lastEvent.flag.result = [error |-> FALSE, opening |-> lastEvent.flag.openings[1],
                                 drawn |-> 0]
    /\ lastEvent.flag.randoms = << >>

\* the draws tried for an opening are the multiples of 2^-SearchBits
SearchBits == 11

\* whether one of the draws lo..hi (in units of 2^-SearchBits) makes
\* weightedRandomSelect return item i; the item returned does not go back in
\* the list as the draw grows
RECURSIVE DrawReturns(_, _, _, _)
DrawReturns(items, i, lo, hi) ==
    IF lo > hi THEN FALSE
    ELSE LET mid == (lo + hi) \div 2
             got == WeightedRandomSelect(items, RandomOf(mid, SearchBits))
         IN  IF got = items[i].opening THEN TRUE
             ELSE IF \E j \in 1..(i - 1) : items[j].opening = got
             THEN DrawReturns(items, i, mid + 1, hi)
             ELSE DrawReturns(items, i, lo, mid - 1)

\* the weighted openings of the selectOpening that has returned
ReturnedItems ==
    OpeningsWithWeights(lastEvent.flag.roulette, lastEvent.flag.openings,
                        lastEvent.flag.progressData, lastEvent.flag.now,
                        lastEvent.flag.randoms)

\* C22: for every rating, progress record, configuration (including zero or
\* negative configured weights) and fuzz draw, calculateWeight returns a value
\* >= 0.01; consequently, in selectOpening over two or more openings, every
\* opening is returned for some value of the random draw.
C22_WeightFloor ==
    /\ Returned("calculateWeight") => NumLeq(MinWeight, lastEvent.flag.result)
    /\ (Returned("selectOpening") /\ Len(lastEvent.flag.openings) >= 2) =>
          \A i \in 1..Len(lastEvent.flag.openings) :
             /\ NumLeq(MinWeight, ReturnedItems[i].weight)
             /\ DrawReturns(ReturnedItems, i, 0, Pow2(SearchBits) - 1)

\* calculateWeight floored a weight that is configured negative, and
\* selectOpening returned that opening from between two openings of larger
\* weight
C22_Witness ==
    /\ Returned("selectOpening")
    /\ Len(lastEvent.flag.openings) = 3
    /\ lastEvent.flag.roulette.weights.easy.neg
    /\ lastEvent.flag.result.opening = lastEvent.flag.openings[2]
    /\ ReturnedItems[2].weight = MinWeight
    /\ NumLess(MinWeight, ReturnedItems[1].weight)
    /\ NumLess(MinWeight, ReturnedItems[3].weight)

\* The numbers of a weightedRandomSelect that has returned: r is the draw
\* times the total weight, as the code computes it.
ReturnedDraw == NumMul(lastEvent.flag.random, TotalWeight(lastEvent.flag.items))

\* r - w1 - ... - wi, each subtraction rounded as the code's is
RECURSIVE Remainder(_, _, _)
Remainder(items, r, i) ==
    IF i = 0 THEN r ELSE NumSub(Remainder(items, r, i - 1), items[i].weight)

\* The weights and r are not negative, so each is an integer times 2^e for
\* the least exponent e of them, and sums of these integers are exact.
RECURSIVE LeastExponent(_, _)
LeastExponent(items, r) ==
    IF items = << >> THEN r.abs.e
    ELSE LET rest == LeastExponent(Tail(items), r)
             e == Head(items).weight.abs.e
         IN  IF e < rest THEN e ELSE rest

ExactUnits(x, e) == BigShiftLeft(x.abs.m, x.abs.e - e)

\* w1 + ... + wi, exactly, in units of 2^e
RECURSIVE ExactCumulative(_, _, _)
ExactCumulative(items, e, i) ==
    IF i = 0 THEN << >>
    ELSE BigAdd(ExactCumulative(items, e, i - 1), ExactUnits(items[i].weight, e))

\* the least index of S, or n if S is empty
FirstOr(S, n) == IF S = {} THEN n ELSE CHOOSE i \in S : \A j \in S : i <= j

\* the first item whose cumulative weight is >= r
FirstCumulativeReaching(items, r) ==
    LET e == LeastExponent(items, r)
    IN  FirstOr({ i \in 1..Len(items) :
                    ~BigLess(ExactCumulative(items, e, i), ExactUnits(r, e)) },
                Len(items))

\* the first item at which the rounded remainder is <= 0
FirstRemainderSpent(items, r) ==
    FirstOr({ i \in 1..Len(items) : NumLeq(Remainder(items, r, i), NumFromInt(0)) },
            Len(items))

\* C23 as stated: weightedRandomSelect with weights w1..wn and a draw r in
\* [0, w1+...+wn) returns the first opening i in list order whose cumulative
\* weight w1+...+wi is >= r, and the last opening if no prefix reaches r.
C23_FirstCumulativeWeight ==
    Returned("weightedRandomSelect") =>
        lastEvent.flag.result =
            lastEvent.flag.items[
                FirstCumulativeReaching(lastEvent.flag.items, ReturnedDraw)].opening

\* C23, amended: weightedRandomSelect returns the first opening i in list
\* order for which the remainder r - w1 - ... - wi, each subtraction rounded
\* to a double, is <= 0, and the last opening if no remainder is.
C23_FirstRemainderSpent ==
    Returned("weightedRandomSelect") =>
        lastEvent.flag.result =
            lastEvent.flag.items[
                FirstRemainderSpent(lastEvent.flag.items, ReturnedDraw)].opening

\* the rounded remainder is spent at the second of three openings, whose
\* cumulative weight is less than r
C23_Witness ==
    /\ Returned("weightedRandomSelect")
    /\ Len(lastEvent.flag.items) = 3
    /\ lastEvent.flag.result = lastEvent.flag.items[2].opening
    /\ FirstRemainderSpent(lastEvent.flag.items, ReturnedDraw) = 2
    /\ FirstCumulativeReaching(lastEvent.flag.items, ReturnedDraw) = 3

\* the multiplier m of an easy-rated opening practised daysSince days ago
DecayMultiplier(config, daysSince) ==
    IF daysSince <= config.decayDays THEN NumFromInt(1)
    ELSE NumMin(NumAdd(NumFromInt(1),
                       Decimal(daysSince - config.decayDays, config.decayDays)),
                config.maxDecayMultiplier)

\* an easy-rated progress record last practised at time t
EasyAt(t) == Defined([difficultyRating |-> Defined("easy"), lastPracticed |-> t])

\* the pre-fuzz weight is weights.easy * m; hard, good and unrated openings
\* keep their configured weight
DecayFormula ==
    LET call == lastEvent.flag
        rating == RatingOf(call.progress)
    IN  /\ (rating = "easy" /\ call.roulette.timeDecayConfig.enabled) =>
              call.beforeFuzz =
                  NumMul(call.roulette.weights.easy,
                         DecayMultiplier(call.roulette.timeDecayConfig,
                             GetDaysSinceLastPractice(call.progress.value.lastPracticed,
                                                      call.now)))
        /\ rating # "easy" => call.beforeFuzz = call.roulette.weights[rating]

\* the pre-fuzz weight is not less than that of an easy opening practised
\* more recently, and not more than maxDecayMultiplier times that of one
\* practised today
DecayGrowsUpToCap ==
    LET call == lastEvent.flag
    IN  /\ \A t \in PracticeTimes :
              t >= call.progress.value.lastPracticed =>
                  NumLeq(WeightBeforeFuzz(call.roulette, EasyAt(t), call.now),
                         call.beforeFuzz)
        /\ NumLeq(call.beforeFuzz,
                  NumMul(call.roulette.timeDecayConfig.maxDecayMultiplier,
                         WeightBeforeFuzz(call.roulette, EasyAt(call.now), call.now)))

EasyWithDecay ==
    /\ Returned("calculateWeight")
    /\ RatingOf(lastEvent.flag.progress) = "easy"
    /\ lastEvent.flag.roulette.timeDecayConfig.enabled

RECURSIVE SumOfRewards(_)
SumOfRewards(achievements) ==
    IF achievements = << >> THEN 0
    ELSE Head(achievements).xpReward + SumOfRewards(Tail(achievements))

\* C25: when checkAchievements unlocks achievements, each newly unlocked
\* achievement's xpReward is awarded: after the call returns, the stored
\* totalXP equals the stored totalXP before the call plus the sum of xpReward
\* over the achievements it returned.
C25_AchievementXPAwarded ==
    Returned("checkAchievements") =>
        lastSaved.data.value.totalXP =
            lastEvent.flag.before + SumOfRewards(lastEvent.flag.unlocked)

\* the n most recent of the events, newest first
RECURSIVE MostRecent(_, _)
MostRecent(events, n) ==
    IF n = 0 \/ events = << >> THEN << >>
    ELSE << events[Len(events)] >> \o MostRecent(SubSeq(events, 1, Len(events) - 1), n - 1)

\* C26: the stored XP history keeps the most recent 100 events: after n calls
\* of awardXP it contains the min(n, 100) most recent events, newest first.
C26_HistoryKeepsLast100 ==
    GetXPHistory(lastSaved, HistoryKept) = MostRecent(sessionLog, HistoryKept)

\* C27: every move applied by an opponent timer is a move of the opponent's
\* colour: in no interleaving of setOpening, resetSession, learner moves and
\* pending opponent timers (the 300 ms first-move timer and the 500 ms reply
\* timer) does the opponent play a move for the learner's side.
C27_OpponentPlaysOwnColour ==
    lastEvent.kind \in {"first", "reply"} =>
        moveHistory[Len(moveHistory)].color # userColor

\* resetSession or setOpening has just run
Restarted == lastEvent.kind \in {"resetSession", "setOpening"}

\* C28: after resetSession or setOpening the session is indistinguishable
\* from a freshly created one: counters are 0, the outcome is Active,
\* awaitingRatingInteraction and openingCompleted are false, and the next
\* learner move is judged for completion and persisted using only moves and
\* counters of the restarted session, never the move history or counters of
\* the session before the restart.
C28_RestartIsFresh ==
    Restarted =>
        /\ correctMoves = 0
        /\ totalMoves = 0
        /\ Active
        /\ ~waitingForInteraction
        /\ ~openingCompleted
        /\ GetTurn(moveHistory) = userColor =>
              /\ cap.moveHistory = << >>
              /\ cap.correctMoves = 0
              /\ cap.totalMoves = 0
              /\ ~cap.sessionEnded

\* an endSession call has invoked the progress update in this step
ProgressUpdateInvoked ==
    /\ Len(inflight') = Len(inflight) + 1
    /\ inflight'[Len(inflight')].stage = "progress"

\* C29: each session persists its result at most once: between one (re)start
\* and the next, the progress update is invoked at most once, so
\* timesPracticed grows by at most 1 per session, whatever the interleaving
\* of a wrong learner move, its 100 ms delayed endSession, the End Session
\* button and the opponent's reply timer.  (ended is cleared by a restart
\* and tells whether the endSession call that ended the session invoked the
\* update.)
C29_PersistsOncePerSession ==
    [][ProgressUpdateInvoked => ~ended.persisted]_vars


\* C30: updates of different openings do not interfere.  When a call of
\* updateRating or updateSessionProgress that overlapped another one
\* completes, the store holds that call's record under its opening, and the
\* record of every other opening is the one that was stored before.
Completes(i) ==
    /\ inflight[i].stage = "setItem"
    /\ inflight[i].overlapped
    /\ inflight' = Remove(inflight, i)

C30_OtherOpeningsKept ==
    [][\A i \in 1..Len(inflight) :
          Completes(i) =>
             /\ lastSaved'[inflight[i].openingId] =
                   Defined(ProgressToSave(inflight[i].toSave.value))
             /\ \A id \in StoredIds \ {inflight[i].openingId} :
                   lastSaved'[id] = lastSaved[id]]_vars
====
